---- MODULE Spec2Model ----
(***************************************************************************)
(* The image store of pkg/storage (ImageStore): repositories, resumable    *)
(* blob uploads, content-addressed placement with hard-link dedupe, the    *)
(* index.json of each repository and the garbage collection that follows   *)
(* every index mutation.                                                   *)
(*                                                                         *)
(* The file system is modelled with inodes: a directory entry (a blob path *)
(* or a scratch path) names an inode, an inode holds the bytes and the     *)
(* modification time, and an open file handle keeps its inode and offset.  *)
(* Every goroutine with a call in flight is a process p whose call record  *)
(* call[p] holds the operation, its arguments, its locals and its          *)
(* position.  A call that runs from start to end under the store lock, or  *)
(* that is one system call, is one action.                                 *)
(***************************************************************************)
EXTENDS Integers, Sequences, FiniteSets, TLC

\* ------------------------------------------------------------------ bounds
NumRepos == 3
NumProcs == 2
MaxUploads == 3
MaxTime == 1
MaxSize == 2
MaxSessions == 1

\* ------------------------------------------------------- program constants
gcDelay == 1
schemaVersion == 2

Repos == 1..NumRepos
Procs == 1..NumProcs
Uuids == 1..MaxUploads

MediaTypeImageManifest == "application/vnd.oci.image.manifest.v1+json"

\* ----------------------------------------------------------- byte strings
\* A file or a body is a sequence of bytes.  Byte 0 stands for the opening of
\* a JSON object, bytes 1.. are payload.
RECURSIVE HashNum(_)
HashNum(s) == IF s = << >> THEN 0 ELSE HashNum(SubSeq(s, 1, Len(s) - 1)) * 4 + s[Len(s)] + 1

\* godigest.FromBytes / godigest.FromReader: the sha256 digest of the bytes; a
\* digest is a positive number, distinct bytes give distinct digests.
FromBytes(s) == HashNum(s) + 1

\* a write that replaces the file by the body
WriteOver(data, off, body) == body

\* a write of body at offset off through a file handle (a hole reads as zeros)
WriteAt(data, off, body) ==
    LET n == IF Len(data) > off + Len(body) THEN Len(data) ELSE off + Len(body)
    IN  [i \in 1..n |-> IF i > off /\ i <= off + Len(body) THEN body[i - off]
                        ELSE IF i <= Len(data) THEN data[i] ELSE 0]

\* json.Unmarshal(body, &ispec.Manifest): a body is a JSON object when it opens
\* with byte 0; its second byte is schemaVersion and every further byte b is a
\* layer descriptor whose digest is that of the one-byte blob <<b>>, except
\* byte 3, which is a field the store does not read.
IsJSON(body) == Len(body) >= 2 /\ body[1] = 0
ManifestSchemaVersion(body) == body[2]
ManifestLayers(body) ==
    LET fields == SubSeq(body, 3, Len(body))
        layers == SelectSeq(fields, LAMBDA b : b # 3)
    IN  [i \in 1..Len(layers) |-> FromBytes(<<layers[i]>>)]

Range(f) == {f[x] : x \in DOMAIN f}

\* ------------------------------------------------------------------ state
VARIABLES
    now,        \* time.Now(), in hours
    gc,         \* is.gc
    dedupe,     \* is.dedupe && is.cache != nil: blobs are placed through the dedupe index
    handle,     \* what NewImageStore was given and what it returned
    repos,      \* the repository directories that exist under the root
    dir,        \* dir[r]: the entries of r's directory
    index,      \* index[r]: the descriptors of r's index.json, in order
    ino,        \* inode -> [data, mtime]
    blobs,      \* <<repo, digest>> -> [ino, placed]: the entries under blobs/
    uploads,    \* <<repo, uuid>> -> inode: the entries under .uploads/
    nextUuid,   \* the uuids guuid.NewV4 has handed out are 1..nextUuid-1
    cache,      \* the dedupe index: digest -> <<repo, digest>>
    lock,       \* is.lock: the process holding the write lock, or 0 (read locks: Readers)
    call,       \* call[p]: the call process p is in
    last,       \* the call that returned last and its error ("" is success)
    fin,        \* history: fin[d] are the repositories a finalize of digest d
                \* succeeded in since a blob or the index record of d was last removed
    swept       \* history: the blobs the last GC run deleted less than gcDelay
                \* after they were placed

vars == <<now, gc, dedupe, handle, repos, dir, index, ino, blobs, uploads, nextUuid, cache, lock, call, last, fin, swept>>

Idle == [op |-> "idle", pc |-> "", repo |-> 0, uuid |-> 0, digest |-> 0, body |-> << >>,
         from |-> 0, h |-> 0, off |-> 0, rec |-> << >>, tries |-> 0,
         ref |-> [tag |-> "", dig |-> 0], media |-> "", idx |-> << >>]

\* results are recorded in last unless the behaviour started with Unobserved
Unobserved == [op |-> "unobserved", repo |-> 0, digest |-> 0, err |-> ""]
NoCall == [op |-> "none", repo |-> 0, digest |-> 0, err |-> ""]

Result(op, repo, digest, err) ==
    last' = IF last = Unobserved THEN last ELSE [op |-> op, repo |-> repo, digest |-> digest, err |-> err]

\* the goroutines are interchangeable: a call starts on the first idle one
Free(p) == call[p].op = "idle" /\ \A q \in Procs : q < p => call[q].op # "idle"

Quiescent == \A p \in Procs : call[p].op = "idle"

\* is.lock is a sync.RWMutex: the goroutines between RLock and RUnlock
Readers == {p \in Procs : call[p].pc = "rlocked"}

\* is.Lock() returns when no goroutine holds the lock for writing or reading
CanLock == lock = 0 /\ Readers = {}

\* is.RLock() returns when no goroutine holds the lock for writing
CanRLock == lock = 0

\* ------------------------------------------------------------ file system
FreshIno(I) == CHOOSE n \in 1..(Cardinality(DOMAIN I) + 1) : n \notin DOMAIN I /\ \A m \in 1..(n - 1) : m \in DOMAIN I

Remove(f, k) == [x \in DOMAIN f \ {k} |-> f[x]]

\* the inodes that a directory entry or an open handle still names
Live(B, U, C) == {B[k].ino : k \in DOMAIN B} \cup {U[k] : k \in DOMAIN U} \cup {C[p].h : p \in Procs}

\* an inode is freed with its last link and its last open handle
Prune(I, B, U, C) == [i \in DOMAIN I \cap Live(B, U, C) |-> I[i]]

BlobPath(repo, digest) == <<repo, digest>>
BlobUploadPath(repo, uuid) == <<repo, uuid>>

BlobExists(path) == path \in DOMAIN blobs
UploadExists(path) == path \in DOMAIN uploads

\* the bytes of the blob at path
BlobData(I, B, path) == I[B[path].ino].data

\* a call returns: the goroutine is idle again
Return(p, err) ==
    /\ call' = [call EXCEPT ![p] = Idle]
    /\ Result(call[p].op, call[p].repo, call[p].digest, err)

\* the entries of a repository directory: blobs ("dir", "file" or "" when
\* missing), .uploads, oci-layout (its imageLayoutVersion, "{" when it does
\* not decode, "" when missing), index.json, and a directory b of a
\* repository named below this one
NoDir == [blobs |-> "", uploads |-> FALSE, layout |-> "", index |-> FALSE, sub |-> FALSE]

ImageLayoutVersion == "1.0.0"

\* what InitRepo makes of a directory that did not exist
NewDir == [blobs |-> "dir", uploads |-> TRUE, layout |-> ImageLayoutVersion, index |-> TRUE, sub |-> FALSE]

\* InitRepo returning nil: a directory that exists is left as it is, else
\* blobs and .uploads are made and oci-layout and an empty index.json written
InitRepo(name) ==
    /\ repos' = repos \cup {name}
    /\ dir' = IF name \in repos THEN dir ELSE [dir EXCEPT ![name] = NewDir]
    /\ index' = IF name \in repos THEN index ELSE [index EXCEPT ![name] = << >>]

\* InitRepo returning the error of ioutil.WriteFile of oci-layout or of
\* index.json (at): the directories made before it stay
InitRepoFails(name, at) ==
    /\ CanLock
    /\ name \notin repos
    /\ repos' = repos \cup {name}
    /\ dir' = [dir EXCEPT ![name] = [NewDir EXCEPT !.layout = IF at = "oci-layout" THEN "" ELSE ImageLayoutVersion,
                                                  !.index = FALSE]]
    /\ Result("InitRepo", name, 0, "EIO")
    /\ UNCHANGED <<now, gc, dedupe, handle, index, ino, blobs, uploads, nextUuid, cache, lock, call, fin, swept>>

\* InitRepo of a repository named name/b: os.MkdirAll makes the directory of
\* name on the way, or adds b to it
InitRepoBelow(name) ==
    /\ CanLock
    /\ ~dir[name].sub
    /\ repos' = repos \cup {name}
    /\ dir' = [dir EXCEPT ![name].sub = TRUE]
    /\ UNCHANGED <<now, gc, dedupe, handle, index, ino, blobs, uploads, nextUuid, cache, lock, call, last, fin, swept>>

\* a blob or the record of digest d is removed: the finalizes before it no
\* longer count for d
Forget(F, ds) == [d \in DOMAIN F |-> IF d \in ds THEN {} ELSE F[d]]

\* ---------------------------------------------------------------- ValidateRepo
\* ioutil.ReadDir(dir): the number of entries of the directory
Entries(d) ==
    (IF d.blobs # "" THEN 1 ELSE 0) + (IF d.uploads THEN 1 ELSE 0) + (IF d.layout # "" THEN 1 ELSE 0)
    + (IF d.index THEN 1 ELSE 0) + (IF d.sub THEN 1 ELSE 0)

\* ValidateRepo of a store whose directories are R with entries D: the bool
\* and the error returned
ValidateRepo(R, D, name) ==
    IF name \notin R THEN [ok |-> FALSE, err |-> "ErrRepoNotFound"]
    ELSE IF Entries(D[name]) < 3 THEN [ok |-> FALSE, err |-> "ErrRepoBadVersion"]
    ELSE IF D[name].blobs = "file" THEN [ok |-> FALSE, err |-> ""]
    ELSE IF D[name].blobs = "" \/ D[name].layout = "" \/ ~D[name].index THEN [ok |-> FALSE, err |-> ""]
    ELSE IF D[name].layout = "{" THEN [ok |-> FALSE, err |-> "json"]
    ELSE IF D[name].layout # ImageLayoutVersion THEN [ok |-> FALSE, err |-> "ErrRepoBadVersion"]
    ELSE [ok |-> TRUE, err |-> ""]

\* GetRepositories: the directories under the root that ValidateRepo accepts
GetRepositories(R, D) == {name \in R : ValidateRepo(R, D, name).ok /\ ValidateRepo(R, D, name).err = ""}

\* a call of ValidateRepo: the result records the bool as 1 or 0
ValidateRepoCall(name) ==
    /\ Result("ValidateRepo", name, IF ValidateRepo(repos, dir, name).ok THEN 1 ELSE 0,
              ValidateRepo(repos, dir, name).err)
    /\ UNCHANGED <<now, gc, dedupe, handle, repos, dir, index, ino, blobs, uploads, nextUuid, cache, lock, call, fin, swept>>

\* ------------------------------------------------------------- NewBlobUpload
\* Lock; InitRepo; Unlock; guuid.NewV4; os.OpenFile(O_WRONLY|O_TRUNC|O_CREATE),
\* which fails in a directory without .uploads
NewBlobUpload(repo) ==
    /\ CanLock
    /\ nextUuid <= MaxUploads
    /\ InitRepo(repo)
    /\ IF dir'[repo].uploads
       THEN /\ LET i == FreshIno(ino)
               IN  /\ ino' = (i :> [data |-> << >>, mtime |-> now]) @@ ino
                   /\ uploads' = (BlobUploadPath(repo, nextUuid) :> i) @@ uploads
            /\ nextUuid' = nextUuid + 1
            /\ Result("NewBlobUpload", repo, 0, "")
       ELSE /\ Result("NewBlobUpload", repo, 0, "ErrRepoNotFound")
            /\ UNCHANGED <<ino, uploads, nextUuid>>
    /\ UNCHANGED <<now, gc, dedupe, handle, blobs, cache, lock, call, fin, swept>>

\* ------------------------------------------------------ PutBlobChunkStreamed
\* Lock; InitRepo; Unlock
PutBlobChunkStreamed(p, repo, uuid, body) ==
    /\ Free(p)
    /\ CanLock
    /\ InitRepo(repo)
    /\ call' = [call EXCEPT ![p] = [Idle EXCEPT !.op = "PutBlobChunkStreamed", !.pc = "stat",
                                    !.repo = repo, !.uuid = uuid, !.body = body]]
    /\ UNCHANGED <<now, gc, dedupe, handle, ino, blobs, uploads, nextUuid, cache, lock, last, fin, swept>>

\* os.Stat(blobUploadPath)
StreamedStat(p) ==
    /\ call[p].op = "PutBlobChunkStreamed" /\ call[p].pc = "stat"
    /\ IF UploadExists(BlobUploadPath(call[p].repo, call[p].uuid))
       THEN /\ call' = [call EXCEPT ![p].pc = "open"]
            /\ UNCHANGED last
       ELSE Return(p, "ErrUploadNotFound")
    /\ UNCHANGED <<now, gc, dedupe, handle, repos, dir, index, ino, blobs, uploads, nextUuid, cache, lock, fin, swept>>

\* an open whose Seek(0, io.SeekEnd) lands at the start of the file
OpenFileAtStart(p, seekTo) ==
    LET path == BlobUploadPath(call[p].repo, call[p].uuid)
    IN  IF UploadExists(path)
        THEN /\ call' = [call EXCEPT ![p].pc = "copy", ![p].h = uploads[path],
                                     ![p].off = IF seekTo < 0 THEN 0 ELSE seekTo]
             /\ UNCHANGED <<ino, uploads>>
        ELSE LET i == FreshIno(ino)
             IN  /\ ino' = (i :> [data |-> << >>, mtime |-> now]) @@ ino
                 /\ uploads' = (path :> i) @@ uploads
                 /\ call' = [call EXCEPT ![p].pc = "copy", ![p].h = i,
                                         ![p].off = IF seekTo < 0 THEN 0 ELSE seekTo]

\* os.OpenFile(O_WRONLY|O_CREATE) and Seek: the handle a call holds while it
\* copies; seekTo < 0 is io.SeekEnd
OpenFile(p, seekTo) ==
    LET path == BlobUploadPath(call[p].repo, call[p].uuid)
    IN  IF UploadExists(path)
        THEN /\ call' = [call EXCEPT ![p].pc = "copy", ![p].h = uploads[path],
                                     ![p].off = IF seekTo < 0 THEN Len(ino[uploads[path]].data) ELSE seekTo]
             /\ UNCHANGED <<ino, uploads>>
        ELSE LET i == FreshIno(ino)
             IN  /\ ino' = (i :> [data |-> << >>, mtime |-> now]) @@ ino
                 /\ uploads' = (path :> i) @@ uploads
                 /\ call' = [call EXCEPT ![p].pc = "copy", ![p].h = i,
                                         ![p].off = IF seekTo < 0 THEN 0 ELSE seekTo]

\* file.Seek(0, io.SeekEnd)
StreamedOpen(p) ==
    /\ call[p].op = "PutBlobChunkStreamed" /\ call[p].pc = "open"
    /\ OpenFile(p, -1)
    /\ UNCHANGED <<now, gc, dedupe, handle, repos, dir, index, blobs, nextUuid, cache, lock, last, fin, swept>>

\* io.Copy(file, body) through the open handle, then the deferred file.Close()
CopyBody(p) ==
    LET i == call[p].h
        written == [ino EXCEPT ![i] = [data |-> WriteAt(ino[i].data, call[p].off, call[p].body), mtime |-> now]]
    IN  /\ Len(written[i].data) <= MaxSize
        /\ Return(p, "")
        /\ ino' = Prune(written, blobs, uploads, call')
        /\ UNCHANGED <<blobs, uploads>>

StreamedCopy(p) ==
    /\ call[p].op = "PutBlobChunkStreamed" /\ call[p].pc = "copy"
    /\ CopyBody(p)
    /\ UNCHANGED <<now, gc, dedupe, handle, repos, dir, index, nextUuid, cache, lock, fin, swept>>

\* -------------------------------------------------------------- PutBlobChunk
\* Lock; InitRepo; Unlock
PutBlobChunk(p, repo, uuid, from, body) ==
    /\ Free(p)
    /\ CanLock
    /\ InitRepo(repo)
    /\ call' = [call EXCEPT ![p] = [Idle EXCEPT !.op = "PutBlobChunk", !.pc = "stat", !.repo = repo,
                                    !.uuid = uuid, !.from = from, !.body = body]]
    /\ UNCHANGED <<now, gc, dedupe, handle, ino, blobs, uploads, nextUuid, cache, lock, last, fin, swept>>

\* os.Stat without the range check
ChunkStatAnyRange(p) ==
    /\ call[p].op = "PutBlobChunk" /\ call[p].pc = "stat"
    /\ IF ~UploadExists(BlobUploadPath(call[p].repo, call[p].uuid)) THEN Return(p, "ErrUploadNotFound")
       ELSE /\ call' = [call EXCEPT ![p].pc = "open"]
            /\ UNCHANGED last
    /\ UNCHANGED <<now, gc, dedupe, handle, repos, dir, index, ino, blobs, uploads, nextUuid, cache, lock, fin, swept>>

\* os.Stat and the range check from != fi.Size()
ChunkStat(p) ==
    /\ call[p].op = "PutBlobChunk" /\ call[p].pc = "stat"
    /\ LET path == BlobUploadPath(call[p].repo, call[p].uuid)
       IN  IF ~UploadExists(path) THEN Return(p, "ErrUploadNotFound")
           ELSE IF call[p].from # Len(ino[uploads[path]].data) THEN Return(p, "ErrBadUploadRange")
           ELSE /\ call' = [call EXCEPT ![p].pc = "open"]
                /\ UNCHANGED last
    /\ UNCHANGED <<now, gc, dedupe, handle, repos, dir, index, ino, blobs, uploads, nextUuid, cache, lock, fin, swept>>

\* file.Seek(from, io.SeekStart)
ChunkOpen(p) ==
    /\ call[p].op = "PutBlobChunk" /\ call[p].pc = "open"
    /\ OpenFile(p, call[p].from)
    /\ UNCHANGED <<now, gc, dedupe, handle, repos, dir, index, blobs, nextUuid, cache, lock, last, fin, swept>>

ChunkCopy(p) ==
    /\ call[p].op = "PutBlobChunk" /\ call[p].pc = "copy"
    /\ CopyBody(p)
    /\ UNCHANGED <<now, gc, dedupe, handle, repos, dir, index, nextUuid, cache, lock, fin, swept>>

\* ---------------------------------------------------------- DeleteBlobUpload
\* os.Remove(blobUploadPath)
DeleteBlobUpload(repo, uuid) ==
    /\ LET path == BlobUploadPath(repo, uuid)
       IN  IF UploadExists(path)
           THEN /\ uploads' = Remove(uploads, path)
                /\ ino' = Prune(ino, blobs, uploads', call)
                /\ Result("DeleteBlobUpload", repo, 0, "")
           ELSE /\ UNCHANGED <<uploads, ino>>
                /\ Result("DeleteBlobUpload", repo, 0, "ENOENT")
    /\ UNCHANGED <<now, gc, dedupe, handle, repos, dir, index, blobs, nextUuid, cache, lock, call, fin, swept>>

\* ------------------------------------------------------------ dedupe index
\* Cache.GetBlob / PutBlob / DeleteBlob of the dedupe index: get returns the
\* stored path or "" (<< >>), put overwrites, delete removes the record only
\* when it still holds the expected path.
CacheGetBlob(c, digest) == IF digest \in DOMAIN c THEN c[digest] ELSE << >>

CachePutBlob(c, digest, path) == (digest :> path) @@ c

CacheDeleteBlob(c, digest, path) == IF digest \in DOMAIN c /\ c[digest] = path THEN Remove(c, digest) ELSE c

\* ------------------------------------------------------------- placement
\* os.Rename(src, dst): the scratch entry becomes the blob entry, replacing any
\* entry already at dst; the inode and its modification time are kept.
Rename(B, U, src, dst, t) == [blobs |-> (dst :> [ino |-> U[src], placed |-> t]) @@ B, uploads |-> Remove(U, src)]

\* a link call that leaves dst as it is
LinkSkipped(B, dstRecord, dst, t) == B

\* os.Link(dstRecord, dst): a second entry for the inode of dstRecord
Link(B, dstRecord, dst, t) == (dst :> [ino |-> B[dstRecord].ino, placed |-> t]) @@ B

\* os.SameFile(dstFi, dstRecordFi); dstFi is nil when dst does not exist
SameFile(B, dst, dstRecord) == dst \in DOMAIN B /\ B[dst].ino = B[dstRecord].ino

\* godigest.Parse(digest) returns no error: a digest string is 0 when it does
\* not parse, positive when it names a sha256 digest, negative when it names a
\* digest of another algorithm the library knows
Parse(digest) == digest # 0

\* srcDigest != dstDigest
\* a comparison that accepts every digest
DigestAccepted(srcDigest, dstDigest) == FALSE

DigestMismatch(srcDigest, dstDigest) == srcDigest # dstDigest

\* FinishBlobUpload up to the lock: godigest.Parse, os.Stat(src),
\* godigest.FromReader, compare
FinishBlobUpload(p, repo, uuid, digest) ==
    /\ Free(p)
    /\ LET src == BlobUploadPath(repo, uuid)
       IN  IF ~Parse(digest)
           THEN /\ call' = call
                /\ Result("FinishBlobUpload", repo, digest, "ErrBadBlobDigest")
           ELSE IF ~UploadExists(src)
           THEN /\ call' = call
                /\ Result("FinishBlobUpload", repo, digest, "ErrUploadNotFound")
           ELSE IF DigestMismatch(FromBytes(ino[uploads[src]].data), digest)
           THEN /\ call' = call
                /\ Result("FinishBlobUpload", repo, digest, "ErrBadBlobDigest")
           ELSE /\ call' = [call EXCEPT ![p] = [Idle EXCEPT !.op = "FinishBlobUpload", !.pc = "place",
                                                          !.repo = repo, !.uuid = uuid, !.digest = digest]]
                /\ UNCHANGED last
    /\ UNCHANGED <<now, gc, dedupe, handle, repos, dir, index, ino, blobs, uploads, nextUuid, cache, lock, fin, swept>>

Placing(p) == call[p].op \in {"FinishBlobUpload", "FullBlobUpload"}

Src(p) == BlobUploadPath(call[p].repo, call[p].uuid)
Dst(p) == BlobPath(call[p].repo, call[p].digest)

\* a FullBlobUpload that keeps the lock of its InitRepo while it copies
FullBlobUploadLocked(p, repo, body, digest) ==
    /\ Free(p)
    /\ CanLock
    /\ nextUuid <= MaxUploads
    /\ InitRepo(repo)
    /\ nextUuid' = nextUuid + 1
    /\ lock' = p
    /\ call' = [call EXCEPT ![p] = [Idle EXCEPT !.op = "FullBlobUpload", !.pc = "copy", !.repo = repo,
                                    !.uuid = nextUuid, !.body = body, !.digest = digest]]
    /\ UNCHANGED <<now, gc, dedupe, handle, ino, blobs, uploads, cache, last, fin, swept>>

\* FullBlobUpload: Lock; InitRepo; Unlock; godigest.Parse; guuid.NewV4
FullBlobUpload(p, repo, body, digest) ==
    /\ Free(p)
    /\ CanLock
    /\ nextUuid <= MaxUploads
    /\ InitRepo(repo)
    /\ IF ~Parse(digest)
       THEN /\ Result("FullBlobUpload", repo, digest, "ErrBadBlobDigest")
            /\ UNCHANGED <<nextUuid, call>>
       ELSE /\ nextUuid' = nextUuid + 1
            /\ call' = [call EXCEPT ![p] = [Idle EXCEPT !.op = "FullBlobUpload", !.pc = "copy", !.repo = repo,
                                            !.uuid = nextUuid, !.body = body, !.digest = digest]]
            /\ UNCHANGED last
    /\ UNCHANGED <<now, gc, dedupe, handle, ino, blobs, uploads, cache, lock, fin, swept>>

\* FullBlobUpload: os.Create(src), which fails in a directory without
\* .uploads, io.Copy through the digester, compare; the scratch file stays
\* when the digests differ
FullCopy(p) ==
    /\ call[p].op = "FullBlobUpload" /\ call[p].pc = "copy"
    /\ IF ~dir[call[p].repo].uploads
       THEN /\ Return(p, "ErrUploadNotFound")
            /\ UNCHANGED <<ino, uploads>>
       ELSE /\ LET i == IF UploadExists(Src(p)) THEN uploads[Src(p)] ELSE FreshIno(ino)
               IN  /\ ino' = [x \in DOMAIN ino \cup {i} |->
                                 IF x = i THEN [data |-> call[p].body, mtime |-> now] ELSE ino[x]]
                   /\ uploads' = (Src(p) :> i) @@ uploads
            /\ IF DigestMismatch(FromBytes(call[p].body), call[p].digest)
               THEN Return(p, "ErrBadBlobDigest")
               ELSE /\ call' = [call EXCEPT ![p].pc = "place"]
                    /\ UNCHANGED last
    /\ UNCHANGED <<now, gc, dedupe, handle, repos, dir, index, blobs, nextUuid, cache, lock, fin, swept>>

\* a finalize of digest d has succeeded in repo
Finalized(F, repo, d) == [x \in DOMAIN F |-> IF x = d THEN F[x] \cup {repo} ELSE F[x]]

\* os.Rename(src, dst) and the return of the finalize
RenameAndReturn(p) ==
    IF UploadExists(Src(p))
    THEN LET fs == Rename(blobs, uploads, Src(p), Dst(p), now)
         IN  /\ blobs' = fs.blobs
             /\ uploads' = fs.uploads
             /\ Return(p, "")
             /\ ino' = Prune(ino, blobs', uploads', call')
             /\ fin' = Finalized(fin, call[p].repo, call[p].digest)
    ELSE /\ Return(p, "ENOENT")
         /\ UNCHANGED <<ino, blobs, uploads, fin>>

\* ensureDir(blobs/sha256): os.MkdirAll, which panics when blobs is a file
ensureDir(D, repo) == [D EXCEPT ![repo].blobs = "dir"]

\* umoci.OpenLayout(dir) wants an oci-layout of the version it knows
OpenLayout(d) == d.layout = ImageLayoutVersion

\* is.Lock(); ensureDir; without dedupe os.Rename(src, dst), with dedupe the
\* first cache.GetBlob of DedupeBlob
Place(p) ==
    /\ Placing(p) /\ call[p].pc = "place"
    /\ CanLock
    /\ dir[call[p].repo].blobs # "file"
    /\ dir' = ensureDir(dir, call[p].repo)
    /\ IF dedupe
       THEN /\ lock' = p
            /\ call' = [call EXCEPT ![p].pc = IF CacheGetBlob(cache, call[p].digest) = << >> THEN "miss" ELSE "hit",
                                    ![p].rec = CacheGetBlob(cache, call[p].digest)]
            /\ UNCHANGED <<ino, blobs, uploads, last, fin>>
       ELSE /\ lock' = lock
            /\ RenameAndReturn(p)
    /\ UNCHANGED <<now, gc, dedupe, handle, repos, index, nextUuid, cache, swept>>

\* DedupeBlob, dstRecord == "": cache.PutBlob(dstDigest, dst)
DedupeMiss(p) ==
    /\ Placing(p) /\ call[p].pc = "miss"
    /\ cache' = CachePutBlob(cache, call[p].digest, Dst(p))
    /\ call' = [call EXCEPT ![p].pc = "rename"]
    /\ UNCHANGED <<now, gc, dedupe, handle, repos, dir, index, ino, blobs, uploads, nextUuid, lock, last, fin, swept>>

\* DedupeBlob, after the record is put: os.Rename(src, dst); Unlock
DedupeRename(p) ==
    /\ Placing(p) /\ call[p].pc = "rename"
    /\ lock' = 0
    /\ RenameAndReturn(p)
    /\ UNCHANGED <<now, gc, dedupe, handle, repos, dir, index, nextUuid, cache, swept>>

\* a retry that leaves the stale record in the index
DedupeStaleKept(p) ==
    /\ call[p].op \in {"FinishBlobUpload", "FullBlobUpload"} /\ call[p].pc = "hit"
    /\ ~BlobExists(call[p].rec)
    /\ call' = [call EXCEPT ![p].pc = "retry", ![p].tries = @ + 1]
    /\ UNCHANGED <<now, gc, dedupe, handle, repos, dir, index, ino, blobs, uploads, nextUuid, cache, lock, last, fin, swept>>

\* DedupeBlob, a record was found and os.Stat(dstRecord) fails: the record is
\* stale, cache.DeleteBlob(dstDigest, dstRecord) and goto retry
DedupeStale(p) ==
    /\ Placing(p) /\ call[p].pc = "hit"
    /\ ~BlobExists(call[p].rec)
    /\ cache' = CacheDeleteBlob(cache, call[p].digest, call[p].rec)
    /\ fin' = IF cache' # cache THEN Forget(fin, {call[p].digest}) ELSE fin
    /\ call' = [call EXCEPT ![p].pc = "retry", ![p].tries = @ + 1]
    /\ UNCHANGED <<now, gc, dedupe, handle, repos, dir, index, ino, blobs, uploads, nextUuid, lock, last, swept>>

\* retry: cache.GetBlob again
DedupeRetry(p) ==
    /\ Placing(p) /\ call[p].pc = "retry"
    /\ call' = [call EXCEPT ![p].pc = IF CacheGetBlob(cache, call[p].digest) = << >> THEN "miss" ELSE "hit",
                            ![p].rec = CacheGetBlob(cache, call[p].digest)]
    /\ UNCHANGED <<now, gc, dedupe, handle, repos, dir, index, ino, blobs, uploads, nextUuid, cache, lock, last, fin, swept>>

\* DedupeBlob, the record's file exists: os.Link(dstRecord, dst) unless dst is
\* that file already (the link fails with EEXIST when dst is another file and
\* the error is returned), then os.Remove(src); Unlock
DedupeHit(p) ==
    /\ Placing(p) /\ call[p].pc = "hit"
    /\ BlobExists(call[p].rec)
    /\ lock' = 0
    /\ IF ~SameFile(blobs, Dst(p), call[p].rec) /\ BlobExists(Dst(p))
       THEN /\ Return(p, "EEXIST")
            /\ UNCHANGED <<ino, blobs, uploads, fin>>
       ELSE /\ blobs' = IF SameFile(blobs, Dst(p), call[p].rec) THEN blobs
                        ELSE Link(blobs, call[p].rec, Dst(p), now)
            /\ IF UploadExists(Src(p))
               THEN /\ uploads' = Remove(uploads, Src(p))
                    /\ Return(p, "")
                    /\ fin' = Finalized(fin, call[p].repo, call[p].digest)
               ELSE /\ uploads' = uploads
                    /\ Return(p, "ENOENT")
                    /\ fin' = fin
            /\ ino' = Prune(ino, blobs', uploads', call')
    /\ UNCHANGED <<now, gc, dedupe, handle, repos, dir, index, nextUuid, cache, swept>>

\* ------------------------------------------------------------- DeleteBlob
\* godigest.Parse and os.Stat(blobPath), outside the lock: both failures
\* return ErrBlobNotFound
DeleteBlob(p, repo, digest) ==
    /\ Free(p)
    /\ IF Parse(digest) /\ BlobExists(BlobPath(repo, digest))
       THEN /\ call' = [call EXCEPT ![p] = [Idle EXCEPT !.op = "DeleteBlob", !.repo = repo, !.digest = digest,
                                                       !.pc = IF dedupe THEN "cache" ELSE "remove"]]
            /\ UNCHANGED last
       ELSE /\ call' = call
            /\ Result("DeleteBlob", repo, digest, "ErrBlobNotFound")
    /\ UNCHANGED <<now, gc, dedupe, handle, repos, dir, index, ino, blobs, uploads, nextUuid, cache, lock, fin, swept>>

\* is.cache.DeleteBlob(digest, blobPath), outside the lock
DeleteBlobCache(p) ==
    /\ call[p].op = "DeleteBlob" /\ call[p].pc = "cache"
    /\ cache' = CacheDeleteBlob(cache, call[p].digest, Dst(p))
    /\ fin' = IF cache' # cache THEN Forget(fin, {call[p].digest}) ELSE fin
    /\ call' = [call EXCEPT ![p].pc = "remove"]
    /\ UNCHANGED <<now, gc, dedupe, handle, repos, dir, index, ino, blobs, uploads, nextUuid, lock, last, swept>>

\* os.Remove(blobPath) without the lock
DeleteBlobRemoveUnlocked(p) ==
    /\ call[p].op = "DeleteBlob" /\ call[p].pc = "remove"
    /\ IF BlobExists(Dst(p))
       THEN /\ blobs' = Remove(blobs, Dst(p))
            /\ Return(p, "")
            /\ ino' = Prune(ino, blobs', uploads, call')
            /\ fin' = Forget(fin, {call[p].digest})
       ELSE /\ Return(p, "ENOENT")
            /\ UNCHANGED <<ino, blobs, fin>>
    /\ UNCHANGED <<now, gc, dedupe, handle, repos, dir, index, uploads, nextUuid, cache, lock, swept>>

\* is.Lock(); os.Remove(blobPath); is.Unlock()
DeleteBlobRemove(p) ==
    /\ call[p].op = "DeleteBlob" /\ call[p].pc = "remove"
    /\ CanLock
    /\ IF BlobExists(Dst(p))
       THEN /\ blobs' = Remove(blobs, Dst(p))
            /\ Return(p, "")
            /\ ino' = Prune(ino, blobs', uploads, call')
            /\ fin' = Forget(fin, {call[p].digest})
       ELSE /\ Return(p, "ENOENT")
            /\ UNCHANGED <<ino, blobs, fin>>
    /\ UNCHANGED <<now, gc, dedupe, handle, repos, dir, index, uploads, nextUuid, cache, lock, swept>>

\* --------------------------------------------------------- garbage collection
\* ifOlderThan: the policy keeps a blob while ModTime + delay is after time.Now()
ifOlderThan(I, B, path, delay, t) == ~(I[B[path].ino].mtime + delay > t)

\* the blobs of repo that umoci's GC marks from index.json: each descriptor's
\* manifest blob and the layers that manifest names
Reachable(repo, manifests, I, B) ==
    {m.digest : m \in Range(manifests)} \cup
    UNION {IF BlobPath(repo, m.digest) \in DOMAIN B /\ IsJSON(BlobData(I, B, BlobPath(repo, m.digest)))
           THEN Range(ManifestLayers(BlobData(I, B, BlobPath(repo, m.digest))))
           ELSE {} : m \in Range(manifests)}

\* the mark phase reads every reachable blob and fails on one that is missing
\* or on a manifest blob that does not parse
GCFails(repo, manifests, I, B) ==
    \/ \E d \in Reachable(repo, manifests, I, B) : BlobPath(repo, d) \notin DOMAIN B
    \/ \E m \in Range(manifests) : BlobPath(repo, m.digest) \in DOMAIN B
                                     /\ ~IsJSON(BlobData(I, B, BlobPath(repo, m.digest)))

\* oci.GC(ctx, ifOlderThan(is, repo, gcDelay)): the blob entries left in the store
GC(repo, manifests, I, B, t) ==
    IF GCFails(repo, manifests, I, B) THEN B
    ELSE [path \in {k \in DOMAIN B : ~(/\ k[1] = repo
                                        /\ k[2] \notin Reachable(repo, manifests, I, B)
                                        /\ ifOlderThan(I, B, k, gcDelay, t))} |-> B[path]]

\* of the blobs a GC run deleted, those placed less than delay ago
Young(before, after, delay, t) == {k \in DOMAIN before \ DOMAIN after : before[k].placed + delay > t}

\* ----------------------------------------------------------- PutImageManifest
\* a reference is a tag or a digest string
RefTag(t) == [tag |-> t, dig |-> 0]
RefDigest(d) == [tag |-> "", dig |-> d]

\* a parse that takes every reference for a digest
RefAlwaysDigest(reference) == TRUE

\* godigest.Parse(reference) succeeds
RefIsDigest(reference) == reference.dig # 0

\* reference == m.Digest.String()
RefEqualsDigest(reference, m) == reference.dig = m.digest

\* v, ok := m.Annotations[ispec.AnnotationRefName]; ok && v == reference
RefEqualsTag(reference, m) == m.tag # "" /\ m.tag = reference.tag

\* desc := ispec.Descriptor{...}, annotated with the tag unless the reference
\* is a digest
NewDescriptor(mediaType, body, reference) ==
    [mediaType |-> mediaType, size |-> Len(body), digest |-> FromBytes(body), platform |-> "linux/amd64",
     tag |-> IF RefIsDigest(reference) THEN "" ELSE reference.tag]

RemoveAt(seq, i) == SubSeq(seq, 1, i - 1) \o SubSeq(seq, i + 1, Len(seq))

\* a descriptor of the index that the loop stops at
Matches(reference, m) == RefEqualsDigest(reference, m) \/ RefEqualsTag(reference, m)

\* an update that appends the new descriptor whatever the index holds
UpdateIndexAppends(manifests, reference, desc) == [updateIndex |-> TRUE, manifests |-> Append(manifests, desc)]

\* the loop over index.Manifests and the append that follows it
UpdateIndex(manifests, reference, desc) ==
    LET hits == {i \in 1..Len(manifests) : Matches(reference, manifests[i])}
    IN  IF hits = {} THEN [updateIndex |-> TRUE, manifests |-> Append(manifests, desc)]
        ELSE LET i == CHOOSE j \in hits : \A k \in hits : j <= k
                 m == manifests[i]
             IN  IF RefEqualsDigest(reference, m) \/ m.digest = desc.digest
                 THEN [updateIndex |-> FALSE, manifests |-> manifests]
                 ELSE [updateIndex |-> TRUE,
                       manifests |-> Append(RemoveAt(manifests, i), [m EXCEPT !.size = desc.size, !.digest = desc.digest])]

\* the layer loop returns at the first layer that os.Stat does not find
MissingLayer(repo, body, B) ==
    LET layers == ManifestLayers(body)
        missing == {i \in 1..Len(layers) : BlobPath(repo, layers[i]) \notin DOMAIN B}
    IN  layers[CHOOSE i \in missing : \A j \in missing : i <= j]

\* checks that skip the layer loop
ManifestErrorNoLayers(repo, reference, mediaType, body, B) ==
    IF mediaType # MediaTypeImageManifest THEN "ErrBadManifest"
    ELSE IF Len(body) = 0 THEN "ErrBadManifest"
    ELSE IF ~IsJSON(body) THEN "ErrBadManifest"
    ELSE IF ManifestSchemaVersion(body) # schemaVersion THEN "ErrBadManifest"
    ELSE IF RefIsDigest(reference) /\ reference.dig # FromBytes(body) THEN "ErrBadManifest"
    ELSE ""

\* checks that accept every schemaVersion
ManifestErrorAnyVersion(repo, reference, mediaType, body, B) ==
    IF mediaType # MediaTypeImageManifest THEN "ErrBadManifest"
    ELSE IF Len(body) = 0 THEN "ErrBadManifest"
    ELSE IF ~IsJSON(body) THEN "ErrBadManifest"
    ELSE IF \E d \in Range(ManifestLayers(body)) : BlobPath(repo, d) \notin DOMAIN B THEN "ErrBlobNotFound"
    ELSE IF RefIsDigest(reference) /\ reference.dig # FromBytes(body) THEN "ErrBadManifest"
    ELSE ""

\* the checks before the index is read: "" when the manifest is accepted
ManifestError(repo, reference, mediaType, body, B) ==
    IF mediaType # MediaTypeImageManifest THEN "ErrBadManifest"
    ELSE IF Len(body) = 0 THEN "ErrBadManifest"
    ELSE IF ~IsJSON(body) THEN "ErrBadManifest"
    ELSE IF ManifestSchemaVersion(body) # schemaVersion THEN "ErrBadManifest"
    ELSE IF \E d \in Range(ManifestLayers(body)) : BlobPath(repo, d) \notin DOMAIN B THEN "ErrBlobNotFound"
    ELSE IF RefIsDigest(reference) /\ reference.dig # FromBytes(body) THEN "ErrBadManifest"
    ELSE ""

\* ioutil.WriteFile(file, body, 0600): an existing file is truncated and
\* rewritten in place, a missing one is created
WriteFile(I, B, path, body, t) ==
    IF path \in DOMAIN B
    THEN [ino |-> [I EXCEPT ![B[path].ino] = [data |-> body, mtime |-> t]], blobs |-> B]
    ELSE [ino |-> (FreshIno(I) :> [data |-> body, mtime |-> t]) @@ I,
          blobs |-> (path :> [ino |-> FreshIno(I), placed |-> t]) @@ B]

\* the whole call runs under the store lock
PutImageManifest(repo, reference, mediaType, body) ==
    /\ CanLock
    /\ repos' = repos \cup {repo}
    /\ LET manifests == IF repo \in repos THEN index[repo] ELSE << >>
           d == IF repo \in repos THEN dir[repo] ELSE NewDir
           checks == ManifestError(repo, reference, mediaType, body, blobs)
           err == IF checks = "" /\ ~d.index THEN "ENOENT" ELSE checks
           upd == UpdateIndex(manifests, reference, NewDescriptor(mediaType, body, reference))
           fs == WriteFile(ino, blobs, BlobPath(repo, FromBytes(body)), body, now)
           after == IF gc THEN GC(repo, upd.manifests, fs.ino, fs.blobs, now) ELSE fs.blobs
       IN  IF err # ""
           THEN /\ index' = [index EXCEPT ![repo] = manifests]
                /\ dir' = [dir EXCEPT ![repo] = d]
                /\ Result("PutImageManifest", repo, FromBytes(body), err)
                /\ UNCHANGED <<ino, blobs, fin, swept>>
           ELSE IF ~upd.updateIndex
           THEN /\ index' = [index EXCEPT ![repo] = manifests]
                /\ dir' = [dir EXCEPT ![repo] = d]
                /\ Result("PutImageManifest", repo, FromBytes(body), "")
                /\ UNCHANGED <<ino, blobs, fin, swept>>
           ELSE IF gc /\ ~OpenLayout(d)
           THEN /\ d.blobs # "file"
                /\ index' = [index EXCEPT ![repo] = upd.manifests]
                /\ dir' = ensureDir([dir EXCEPT ![repo] = d], repo)
                /\ blobs' = fs.blobs
                /\ ino' = fs.ino
                /\ Result("PutImageManifest", repo, FromBytes(body), "OpenLayout")
                /\ UNCHANGED <<fin, swept>>
           ELSE /\ d.blobs # "file"
                /\ index' = [index EXCEPT ![repo] = upd.manifests]
                /\ dir' = ensureDir([dir EXCEPT ![repo] = d], repo)
                /\ blobs' = after
                /\ ino' = Prune(fs.ino, after, uploads, call)
                /\ fin' = Forget(fin, {k[2] : k \in DOMAIN fs.blobs \ DOMAIN after})
                /\ swept' = IF gc THEN Young(fs.blobs, after, gcDelay, now) ELSE swept
                /\ Result("PutImageManifest", repo, FromBytes(body),
                          IF gc /\ GCFails(repo, upd.manifests, fs.ino, fs.blobs) THEN "GC" ELSE "")
    /\ UNCHANGED <<now, gc, dedupe, handle, uploads, nextUuid, cache, lock, call>>

\* -------------------------------------------------------- DeleteImageManifest
\* a loop that stops at the first descriptor of the digest
KeepOthersAfterFirst(manifests, reference) ==
    LET hits == {i \in 1..Len(manifests) : RefEqualsDigest(reference, manifests[i])}
    IN  IF hits = {} THEN manifests ELSE RemoveAt(manifests, CHOOSE i \in hits : \A j \in hits : i <= j)

\* we are deleting, so keep only those manifests that don't match
KeepOthers(manifests, reference) == SelectSeq(manifests, LAMBDA m : ~RefEqualsDigest(reference, m))

\* the whole call after dirExists runs under the store lock; GC runs before
\* the manifest blob is removed
DeleteImageManifest(repo, reference) ==
    /\ CanLock
    /\ LET out == KeepOthers(index[repo], reference)
           after == IF gc THEN GC(repo, out, ino, blobs, now) ELSE blobs
           left == [k \in DOMAIN after \ {BlobPath(repo, reference.dig)} |-> after[k]]
       IN  IF repo \notin repos
           THEN /\ Result("DeleteImageManifest", repo, reference.dig, "ErrRepoNotFound")
                /\ UNCHANGED <<index, ino, blobs, fin, swept>>
           ELSE IF ~RefIsDigest(reference)
           THEN /\ Result("DeleteImageManifest", repo, reference.dig, "ErrBadManifest")
                /\ UNCHANGED <<index, ino, blobs, fin, swept>>
           ELSE IF ~dir[repo].index
           THEN /\ Result("DeleteImageManifest", repo, reference.dig, "ENOENT")
                /\ UNCHANGED <<index, ino, blobs, fin, swept>>
           ELSE IF out = index[repo]
           THEN /\ Result("DeleteImageManifest", repo, reference.dig, "ErrManifestNotFound")
                /\ UNCHANGED <<index, ino, blobs, fin, swept>>
           ELSE /\ index' = [index EXCEPT ![repo] = out]
                /\ IF gc /\ (~OpenLayout(dir[repo]) \/ GCFails(repo, out, ino, blobs))
                   THEN /\ Result("DeleteImageManifest", repo, reference.dig,
                                  IF OpenLayout(dir[repo]) THEN "GC" ELSE "OpenLayout")
                        /\ swept' = {}
                        /\ UNCHANGED <<ino, blobs, fin>>
                   ELSE /\ Result("DeleteImageManifest", repo, reference.dig, "")
                        /\ blobs' = left
                        /\ ino' = Prune(ino, left, uploads, call)
                        /\ fin' = Forget(fin, {k[2] : k \in DOMAIN blobs \ DOMAIN left})
                        /\ swept' = IF gc THEN Young(blobs, after, gcDelay, now) ELSE swept
    /\ UNCHANGED <<now, gc, dedupe, handle, repos, dir, uploads, nextUuid, cache, lock, call>>

\* ---------------------------------------------------------------------- reads
\* what the read operations return in a store whose repositories are R, index
\* files X, files I and blob entries B
\* GetImageTags: the ref.name annotations of index.json, in order
TagsOf(manifests) ==
    LET tagged == SelectSeq(manifests, LAMBDA m : m.tag # "")
    IN  [i \in 1..Len(tagged) |-> tagged[i].tag]

GetImageTags(R, X, repo) ==
    IF repo \notin R THEN [err |-> "ErrRepoNotFound", tags |-> << >>]
    ELSE [err |-> "", tags |-> TagsOf(X[repo])]

\* GetImageManifest: the first descriptor whose digest or whose tag is the
\* reference, and the bytes of the blob it names
GetImageManifest(R, X, I, B, repo, reference) ==
    LET hits == {i \in 1..Len(X[repo]) : Matches(reference, X[repo][i])}
        m == X[repo][CHOOSE j \in hits : \A k \in hits : j <= k]
    IN  IF repo \notin R THEN [err |-> "ErrRepoNotFound", body |-> << >>, digest |-> 0]
        ELSE IF hits = {} THEN [err |-> "ErrManifestNotFound", body |-> << >>, digest |-> 0]
        ELSE IF BlobPath(repo, m.digest) \notin DOMAIN B THEN [err |-> "ErrManifestNotFound", body |-> << >>, digest |-> 0]
        ELSE IF ~IsJSON(BlobData(I, B, BlobPath(repo, m.digest))) THEN [err |-> "json", body |-> << >>, digest |-> 0]
        ELSE [err |-> "", body |-> BlobData(I, B, BlobPath(repo, m.digest)), digest |-> m.digest]

\* GetBlobUpload: os.Stat(blobUploadPath).Size()
GetBlobUpload(I, U, repo, uuid) ==
    IF BlobUploadPath(repo, uuid) \notin DOMAIN U THEN [err |-> "ErrUploadNotFound", size |-> -1]
    ELSE [err |-> "", size |-> Len(I[U[BlobUploadPath(repo, uuid)]].data)]

\* CheckBlob: godigest.Parse, os.Stat(blobPath)
CheckBlob(I, B, repo, digest) ==
    IF ~Parse(digest) THEN [err |-> "ErrBadBlobDigest", size |-> -1]
    ELSE IF BlobPath(repo, digest) \notin DOMAIN B THEN [err |-> "ErrBlobNotFound", size |-> -1]
    ELSE [err |-> "", size |-> Len(BlobData(I, B, BlobPath(repo, digest)))]

\* GetBlob: godigest.Parse, os.Stat(blobPath), then os.Open under the read
\* lock; the reader yields the bytes of the file
GetBlob(I, B, repo, digest) ==
    IF ~Parse(digest) THEN [err |-> "ErrBadBlobDigest", body |-> << >>, size |-> -1]
    ELSE IF BlobPath(repo, digest) \notin DOMAIN B THEN [err |-> "ErrBlobNotFound", body |-> << >>, size |-> -1]
    ELSE [err |-> "", body |-> BlobData(I, B, BlobPath(repo, digest)),
          size |-> Len(BlobData(I, B, BlobPath(repo, digest)))]

\* ------------------------------------------------- the calls under the lock
\* PutImageManifest and DeleteImageManifest in the steps the write lock makes
\* atomic, and the reads under the read lock
\* a put that starts without is.Lock()
PutImageManifestUnlocked(p, repo, reference, mediaType, body) ==
    /\ Free(p)
    /\ call' = [call EXCEPT ![p] = [Idle EXCEPT !.op = "PutImageManifest", !.pc = "read", !.repo = repo,
                                    !.ref = reference, !.media = mediaType, !.body = body,
                                    !.digest = FromBytes(body)]]
    /\ UNCHANGED <<now, gc, dedupe, handle, repos, dir, index, ino, blobs, uploads, nextUuid, cache, lock, last, fin, swept>>

\* PutImageManifest: is.Lock()
PutImageManifestLock(p, repo, reference, mediaType, body) ==
    /\ Free(p)
    /\ CanLock
    /\ lock' = p
    /\ call' = [call EXCEPT ![p] = [Idle EXCEPT !.op = "PutImageManifest", !.pc = "read", !.repo = repo,
                                    !.ref = reference, !.media = mediaType, !.body = body,
                                    !.digest = FromBytes(body)]]
    /\ UNCHANGED <<now, gc, dedupe, handle, repos, dir, index, ino, blobs, uploads, nextUuid, cache, last, fin, swept>>

\* the deferred is.Unlock() of the goroutine that holds the lock
Unlock(p) == lock' = IF lock = p THEN 0 ELSE lock

\* InitRepo, the checks of the manifest, ioutil.ReadFile(index.json); a
\* rejected put returns the missing layer's digest or the empty string (0)
PutImageManifestRead(p) ==
    /\ call[p].op = "PutImageManifest" /\ call[p].pc = "read"
    /\ InitRepo(call[p].repo)
    /\ IF ManifestError(call[p].repo, call[p].ref, call[p].media, call[p].body, blobs) # ""
       THEN /\ call' = [call EXCEPT ![p] = Idle]
            /\ Result("PutImageManifest", call[p].repo,
                      IF ManifestError(call[p].repo, call[p].ref, call[p].media, call[p].body, blobs) = "ErrBlobNotFound"
                      THEN MissingLayer(call[p].repo, call[p].body, blobs) ELSE 0,
                      ManifestError(call[p].repo, call[p].ref, call[p].media, call[p].body, blobs))
            /\ Unlock(p)
       ELSE IF ~dir'[call[p].repo].index
       THEN /\ call' = [call EXCEPT ![p] = Idle]
            /\ Result("PutImageManifest", call[p].repo, 0, "ENOENT")
            /\ Unlock(p)
       ELSE /\ call' = [call EXCEPT ![p].pc = "write", ![p].idx = index'[call[p].repo]]
            /\ UNCHANGED <<lock, last>>
    /\ UNCHANGED <<now, gc, dedupe, handle, ino, blobs, uploads, nextUuid, cache, fin, swept>>

\* the loop over the descriptors read, ioutil.WriteFile of the blob and of
\* index.json, oci.GC, and the deferred Unlock
PutImageManifestWrite(p) ==
    /\ call[p].op = "PutImageManifest" /\ call[p].pc = "write"
    /\ LET repo == call[p].repo
           upd == UpdateIndex(call[p].idx, call[p].ref, NewDescriptor(call[p].media, call[p].body, call[p].ref))
           fs == WriteFile(ino, blobs, BlobPath(repo, call[p].digest), call[p].body, now)
           after == IF gc THEN GC(repo, upd.manifests, fs.ino, fs.blobs, now) ELSE fs.blobs
       IN  IF ~upd.updateIndex
           THEN /\ Return(p, "")
                /\ UNCHANGED <<dir, index, ino, blobs, fin, swept>>
           ELSE IF gc /\ ~OpenLayout(dir[repo])
           THEN /\ dir[repo].blobs # "file"
                /\ index' = [index EXCEPT ![repo] = upd.manifests]
                /\ dir' = ensureDir(dir, repo)
                /\ blobs' = fs.blobs
                /\ ino' = fs.ino
                /\ Return(p, "OpenLayout")
                /\ UNCHANGED <<fin, swept>>
           ELSE /\ dir[repo].blobs # "file"
                /\ index' = [index EXCEPT ![repo] = upd.manifests]
                /\ dir' = ensureDir(dir, repo)
                /\ blobs' = after
                /\ Return(p, IF gc /\ GCFails(repo, upd.manifests, fs.ino, fs.blobs) THEN "GC" ELSE "")
                /\ ino' = Prune(fs.ino, after, uploads, call')
                /\ fin' = Forget(fin, {k[2] : k \in DOMAIN fs.blobs \ DOMAIN after})
                /\ swept' = IF gc THEN Young(fs.blobs, after, gcDelay, now) ELSE swept
    /\ Unlock(p)
    /\ UNCHANGED <<now, gc, dedupe, handle, repos, uploads, nextUuid, cache>>

\* DeleteImageManifest: dirExists, is.Lock()
DeleteImageManifestLock(p, repo, reference) ==
    /\ Free(p)
    /\ IF repo \notin repos
       THEN /\ Result("DeleteImageManifest", repo, reference.dig, "ErrRepoNotFound")
            /\ UNCHANGED <<lock, call>>
       ELSE /\ CanLock
            /\ lock' = p
            /\ call' = [call EXCEPT ![p] = [Idle EXCEPT !.op = "DeleteImageManifest", !.pc = "read", !.repo = repo,
                                            !.ref = reference, !.digest = reference.dig]]
            /\ UNCHANGED last
    /\ UNCHANGED <<now, gc, dedupe, handle, repos, dir, index, ino, blobs, uploads, nextUuid, cache, fin, swept>>

\* godigest.Parse(reference), ioutil.ReadFile(index.json), the loop that keeps
\* the descriptors of other digests
DeleteImageManifestRead(p) ==
    /\ call[p].op = "DeleteImageManifest" /\ call[p].pc = "read"
    /\ IF ~RefIsDigest(call[p].ref)
       THEN Return(p, "ErrBadManifest") /\ Unlock(p)
       ELSE IF ~dir[call[p].repo].index
       THEN Return(p, "ENOENT") /\ Unlock(p)
       ELSE IF KeepOthers(index[call[p].repo], call[p].ref) = index[call[p].repo]
       THEN Return(p, "ErrManifestNotFound") /\ Unlock(p)
       ELSE /\ call' = [call EXCEPT ![p].pc = "write", ![p].idx = index[call[p].repo]]
            /\ UNCHANGED <<lock, last>>
    /\ UNCHANGED <<now, gc, dedupe, handle, repos, dir, index, ino, blobs, uploads, nextUuid, cache, fin, swept>>

\* ioutil.WriteFile(index.json), oci.GC, os.Remove of the manifest blob, and
\* the deferred Unlock
DeleteImageManifestWrite(p) ==
    /\ call[p].op = "DeleteImageManifest" /\ call[p].pc = "write"
    /\ LET repo == call[p].repo
           out == KeepOthers(call[p].idx, call[p].ref)
           after == IF gc THEN GC(repo, out, ino, blobs, now) ELSE blobs
           left == [k \in DOMAIN after \ {BlobPath(repo, call[p].digest)} |-> after[k]]
       IN  /\ index' = [index EXCEPT ![repo] = out]
           /\ IF gc /\ (~OpenLayout(dir[repo]) \/ GCFails(repo, out, ino, blobs))
              THEN /\ Return(p, IF OpenLayout(dir[repo]) THEN "GC" ELSE "OpenLayout")
                   /\ swept' = {}
                   /\ UNCHANGED <<ino, blobs, fin>>
              ELSE /\ Return(p, "")
                   /\ blobs' = left
                   /\ ino' = Prune(ino, left, uploads, call')
                   /\ fin' = Forget(fin, {k[2] : k \in DOMAIN blobs \ DOMAIN left})
                   /\ swept' = IF gc THEN Young(blobs, after, gcDelay, now) ELSE swept
    /\ Unlock(p)
    /\ UNCHANGED <<now, gc, dedupe, handle, repos, dir, uploads, nextUuid, cache>>

\* GetImageManifest: dirExists, is.RLock()
GetImageManifestRLock(p, repo, reference) ==
    /\ Free(p)
    /\ IF repo \notin repos
       THEN /\ Result("GetImageManifest", repo, reference.dig, "ErrRepoNotFound")
            /\ call' = call
       ELSE /\ CanRLock
            /\ call' = [call EXCEPT ![p] = [Idle EXCEPT !.op = "GetImageManifest", !.pc = "rlocked", !.repo = repo,
                                            !.ref = reference, !.digest = reference.dig]]
            /\ UNCHANGED last
    /\ UNCHANGED <<now, gc, dedupe, handle, repos, dir, index, ino, blobs, uploads, nextUuid, cache, lock, fin, swept>>

\* the repositories whose index.json can be read
WithIndex == {r \in repos : dir[r].index}

\* the reads of index.json and of the manifest blob, and the deferred RUnlock;
\* the digest returned is the one of the descriptor found
GetImageManifestReturn(p) ==
    /\ call[p].op = "GetImageManifest" /\ call[p].pc = "rlocked"
    /\ call' = [call EXCEPT ![p] = Idle]
    /\ Result("GetImageManifest", call[p].repo,
              GetImageManifest(WithIndex, index, ino, blobs, call[p].repo, call[p].ref).digest,
              GetImageManifest(WithIndex, index, ino, blobs, call[p].repo, call[p].ref).err)
    /\ UNCHANGED <<now, gc, dedupe, handle, repos, dir, index, ino, blobs, uploads, nextUuid, cache, lock, fin, swept>>

\* GetBlob: godigest.Parse, os.Stat(blobPath), is.RLock()
GetBlobRLock(p, repo, digest) ==
    /\ Free(p)
    /\ IF ~Parse(digest) \/ ~BlobExists(BlobPath(repo, digest))
       THEN /\ Result("GetBlob", repo, digest, IF Parse(digest) THEN "ErrBlobNotFound" ELSE "ErrBadBlobDigest")
            /\ call' = call
       ELSE /\ CanRLock
            /\ call' = [call EXCEPT ![p] = [Idle EXCEPT !.op = "GetBlob", !.pc = "rlocked", !.repo = repo,
                                            !.digest = digest]]
            /\ UNCHANGED last
    /\ UNCHANGED <<now, gc, dedupe, handle, repos, dir, index, ino, blobs, uploads, nextUuid, cache, lock, fin, swept>>

\* os.Open(blobPath) and the deferred RUnlock
GetBlobOpen(p) ==
    /\ call[p].op = "GetBlob" /\ call[p].pc = "rlocked"
    /\ Return(p, IF BlobExists(Dst(p)) THEN "" ELSE "ENOENT")
    /\ UNCHANGED <<now, gc, dedupe, handle, repos, dir, index, ino, blobs, uploads, nextUuid, cache, lock, fin, swept>>

\* ---------------------------------------------------------------------- time
Tick ==
    /\ now < MaxTime
    /\ now' = now + 1
    /\ UNCHANGED <<gc, dedupe, handle, repos, dir, index, ino, blobs, uploads, nextUuid, cache, lock, call, last, fin, swept>>

\* ------------------------------------------------------------ the inputs
\* what clients send: chunk bodies, whole blobs, manifests, tags and digests
Layer == <<1>>
BareManifest == <<0, schemaVersion>>
OtherManifest == <<0, schemaVersion, 3>>
LayerManifest == <<0, schemaVersion, 1>>
Digests == {FromBytes(Layer), FromBytes(BareManifest), FromBytes(OtherManifest), FromBytes(LayerManifest)}

\* NewCache(rootDir, "cache", log): the dedupe index, or nil when its database
\* file cannot be opened
NewCache(opened) == opened

\* NewImageStore: nil (ok is FALSE) when the root directory cannot be created,
\* else the store with its flags and, with dedupe, whatever NewCache returned
NewImageStore(mkdirAll, gcFlag, dedupeFlag, opened) ==
    [root |-> mkdirAll, opened |-> opened, ok |-> mkdirAll, gc |-> gcFlag, dedupe |-> dedupeFlag,
     cache |-> dedupeFlag /\ NewCache(opened)]

Start(observed) ==
    /\ now = 0
    /\ gc = TRUE
    /\ repos = {}
    /\ dir = [r \in Repos |-> NoDir]
    /\ index = [r \in Repos |-> << >>]
    /\ ino = << >>
    /\ blobs = << >>
    /\ uploads = << >>
    /\ nextUuid = 1
    /\ cache = << >>
    /\ lock = 0
    /\ call = [p \in Procs |-> Idle]
    /\ last = IF observed THEN NoCall ELSE Unobserved
    /\ fin = [d \in Digests |-> {}]
    /\ swept = {}

\* placement with dedupe: whole-blob uploads of one blob into every
\* repository, blob deletion, and puts and deletes of that blob as a manifest
\* of the first repository
Blob == BareManifest

Dedupe(rs) ==
    \/ \E p \in Procs, repo \in rs : FullBlobUpload(p, repo, Blob, FromBytes(Blob))
    \/ \E p \in Procs : FullCopy(p)
    \/ \E p \in Procs : Place(p)
    \/ \E p \in Procs : DedupeMiss(p)
    \/ \E p \in Procs : DedupeRename(p)
    \/ \E p \in Procs : DedupeStale(p)
    \/ \E p \in Procs : DedupeRetry(p)
    \/ \E p \in Procs : DedupeHit(p)
    \/ \E p \in Procs, repo \in rs : DeleteBlob(p, repo, FromBytes(Blob))
    \/ \E p \in Procs : DeleteBlobCache(p)
    \/ \E p \in Procs : DeleteBlobRemove(p)
    \/ PutImageManifest(1, RefTag("latest"), MediaTypeImageManifest, Blob)
    \/ DeleteImageManifest(1, RefDigest(FromBytes(Blob)))

InitDedupe == Start(FALSE) /\ dedupe = TRUE /\ handle = NewImageStore(TRUE, gc, dedupe, TRUE)
NextDedupe == Dedupe(Repos)
SpecDedupe == InitDedupe /\ [][NextDedupe]_vars

\* the same calls on two repositories, with the result of every call recorded
InitHeal == Start(TRUE) /\ dedupe = TRUE /\ handle = NewImageStore(TRUE, gc, dedupe, TRUE)
NextHeal == Dedupe({1, 2})
SpecHeal == InitHeal /\ [][NextHeal]_vars

\* the same calls on two repositories, under the scheduler's fairness: a
\* goroutine that can take the next step of its placement takes it
PlacementStep(p) ==
    FullCopy(p) \/ Place(p) \/ DedupeMiss(p) \/ DedupeRename(p) \/ DedupeStale(p) \/ DedupeRetry(p) \/ DedupeHit(p)

SpecRetry == InitDedupe /\ [][NextHeal]_vars /\ \A p \in Procs : WF_vars(PlacementStep(p))

\* garbage collection: whole-blob uploads of a layer no manifest names into
\* two repositories, time, and puts and deletes of a manifest in the first one
InitGC == Start(FALSE) /\ dedupe = TRUE /\ handle = NewImageStore(TRUE, gc, dedupe, TRUE)

NextGC ==
    \/ Tick
    \/ \E p \in Procs, repo \in {1, 2} : FullBlobUpload(p, repo, Layer, FromBytes(Layer))
    \/ \E p \in Procs : FullCopy(p)
    \/ \E p \in Procs : Place(p)
    \/ \E p \in Procs : DedupeMiss(p)
    \/ \E p \in Procs : DedupeRename(p)
    \/ \E p \in Procs : DedupeStale(p)
    \/ \E p \in Procs : DedupeRetry(p)
    \/ \E p \in Procs : DedupeHit(p)
    \/ PutImageManifest(1, RefTag("latest"), MediaTypeImageManifest, BareManifest)
    \/ DeleteImageManifest(1, RefDigest(FromBytes(BareManifest)))

SpecGC == InitGC /\ [][NextGC]_vars

\* resumable uploads in one repository: sessions, appends of one byte with and
\* without a range, cancels and finalizes of the one-byte blob
InitUpload == Start(FALSE) /\ dedupe = TRUE /\ handle = NewImageStore(TRUE, gc, dedupe, TRUE)

NextUpload ==
    \/ nextUuid <= MaxSessions /\ NewBlobUpload(1)
    \/ \E p \in Procs, uuid \in Uuids : uuid < nextUuid /\ PutBlobChunkStreamed(p, 1, uuid, Layer)
    \/ \E p \in Procs : StreamedStat(p)
    \/ \E p \in Procs : StreamedOpen(p)
    \/ \E p \in Procs : StreamedCopy(p)
    \/ \E p \in Procs, uuid \in Uuids, from \in 0..(MaxSize - 1) :
          uuid < nextUuid /\ PutBlobChunk(p, 1, uuid, from, Layer)
    \/ \E p \in Procs : ChunkStat(p)
    \/ \E p \in Procs : ChunkOpen(p)
    \/ \E p \in Procs : ChunkCopy(p)
    \/ \E p \in Procs, uuid \in Uuids : uuid < nextUuid /\ FinishBlobUpload(p, 1, uuid, FromBytes(Layer))
    \/ \E p \in Procs : Place(p)
    \/ \E p \in Procs : DedupeMiss(p)
    \/ \E p \in Procs : DedupeRename(p)
    \/ \E p \in Procs : DedupeHit(p)
    \/ \E uuid \in Uuids : uuid < nextUuid /\ DeleteBlobUpload(1, uuid)

SpecUpload == InitUpload /\ [][NextUpload]_vars

\* manifests and their layers in one repository: uploads and deletes of the
\* layer, puts and deletes of the manifest that names it, deletes of both
\* blobs, and time, with and without dedupe
InitManifest == Start(FALSE) /\ dedupe \in BOOLEAN /\ handle = NewImageStore(TRUE, gc, dedupe, TRUE)

NextManifest ==
    \/ Tick
    \/ \E p \in Procs : FullBlobUpload(p, 1, Layer, FromBytes(Layer))
    \/ \E p \in Procs : FullCopy(p)
    \/ \E p \in Procs : Place(p)
    \/ \E p \in Procs : DedupeMiss(p)
    \/ \E p \in Procs : DedupeRename(p)
    \/ \E p \in Procs : DedupeHit(p)
    \/ \E p \in Procs, body \in {Layer, LayerManifest} : DeleteBlob(p, 1, FromBytes(body))
    \/ \E p \in Procs : DeleteBlobCache(p)
    \/ \E p \in Procs : DeleteBlobRemove(p)
    \/ PutImageManifest(1, RefTag("latest"), MediaTypeImageManifest, LayerManifest)
    \/ DeleteImageManifest(1, RefDigest(FromBytes(LayerManifest)))

SpecManifest == InitManifest /\ [][NextManifest]_vars

\* the index of one repository: puts by tag and by digest of well-formed and
\* malformed manifests, deletes by digest and by tag, and time
Tags == {"latest", "v1"}
ManifestBodies == {BareManifest, OtherManifest}
BadBodies == {<< >>, Layer, <<0, 1>>, LayerManifest}
References == {RefTag(t) : t \in Tags} \cup {RefDigest(FromBytes(b)) : b \in ManifestBodies}

InitIndex == Start(FALSE) /\ dedupe = TRUE /\ handle = NewImageStore(TRUE, gc, dedupe, TRUE)

NextIndex ==
    \/ Tick
    \/ \E reference \in References, body \in ManifestBodies \cup BadBodies :
          PutImageManifest(1, reference, MediaTypeImageManifest, body)
    \/ \E reference \in References : PutImageManifest(1, reference, "text/plain", BareManifest)
    \/ \E reference \in References : DeleteImageManifest(1, reference)

SpecIndex == InitIndex /\ [][NextIndex]_vars

\* the order of the index: puts by tag of three manifests, deletes by digest
ThirdManifest == <<0, schemaVersion, 3, 3>>
TaggedBodies == {BareManifest, OtherManifest, ThirdManifest}

InitOrder == Start(FALSE) /\ dedupe = TRUE /\ handle = NewImageStore(TRUE, gc, dedupe, TRUE)

NextOrder ==
    \/ Tick
    \/ \E t \in Tags, body \in TaggedBodies : PutImageManifest(1, RefTag(t), MediaTypeImageManifest, body)
    \/ \E body \in TaggedBodies : DeleteImageManifest(1, RefDigest(FromBytes(body)))

SpecOrder == InitOrder /\ [][NextOrder]_vars

\* tags read back: puts by tag of two manifests, deletes of manifests and of
\* their blobs, and time, with and without dedupe, the result of every call
\* recorded
InitOverwrite == Start(TRUE) /\ dedupe \in BOOLEAN /\ handle = NewImageStore(TRUE, gc, dedupe, TRUE)

NextOverwrite ==
    \/ Tick
    \/ \E t \in Tags, body \in ManifestBodies : PutImageManifest(1, RefTag(t), MediaTypeImageManifest, body)
    \/ \E body \in ManifestBodies : DeleteImageManifest(1, RefDigest(FromBytes(body)))
    \/ \E p \in Procs, body \in ManifestBodies : DeleteBlob(p, 1, FromBytes(body))
    \/ \E p \in Procs : DeleteBlobCache(p)
    \/ \E p \in Procs : DeleteBlobRemove(p)

SpecOverwrite == InitOverwrite /\ [][NextOverwrite]_vars

\* one client resuming one upload: it issues its calls one after another,
\* appends with every range start, and finalizes with a right or a wrong
\* digest; the result of every call is recorded
ChunkBodies == {<<1>>, <<0>>, <<1, 0>>}
FinishDigests == {FromBytes(<<1>>), FromBytes(<<1, 0>>)}

InitResume == Start(TRUE) /\ dedupe \in BOOLEAN /\ handle = NewImageStore(TRUE, gc, dedupe, TRUE)

NextResume ==
    \/ nextUuid <= MaxSessions /\ NewBlobUpload(1)
    \/ \E p \in Procs, uuid \in Uuids, from \in 0..MaxSize, body \in ChunkBodies :
          Quiescent /\ uuid < nextUuid /\ PutBlobChunk(p, 1, uuid, from, body)
    \/ \E p \in Procs : ChunkStat(p)
    \/ \E p \in Procs : ChunkOpen(p)
    \/ \E p \in Procs : ChunkCopy(p)
    \/ \E p \in Procs, uuid \in Uuids, digest \in FinishDigests :
          Quiescent /\ uuid < nextUuid /\ FinishBlobUpload(p, 1, uuid, digest)
    \/ \E p \in Procs : Place(p)
    \/ \E p \in Procs : DedupeMiss(p)
    \/ \E p \in Procs : DedupeRename(p)
    \/ \E uuid \in Uuids : Quiescent /\ uuid < nextUuid /\ DeleteBlobUpload(1, uuid)

SpecResume == InitResume /\ [][NextResume]_vars

\* blob round trips in two repositories: one client uploads the blob in one
\* streamed append and finalizes it with its digest, one call after another;
\* the same bytes are also put as a manifest of the first repository; with and
\* without dedupe, the result of every call recorded
InitRoundTrip == Start(TRUE) /\ dedupe \in BOOLEAN /\ handle = NewImageStore(TRUE, gc, dedupe, TRUE)

NextRoundTrip ==
    \/ \E repo \in {1, 2} : Quiescent /\ NewBlobUpload(repo)
    \/ \E p \in Procs, repo \in {1, 2}, uuid \in Uuids :
          /\ Quiescent /\ UploadExists(BlobUploadPath(repo, uuid))
          /\ ino[uploads[BlobUploadPath(repo, uuid)]].data = << >>
          /\ PutBlobChunkStreamed(p, repo, uuid, Blob)
    \/ \E p \in Procs : StreamedStat(p)
    \/ \E p \in Procs : StreamedOpen(p)
    \/ \E p \in Procs : StreamedCopy(p)
    \/ \E p \in Procs, repo \in {1, 2}, uuid \in Uuids :
          /\ Quiescent /\ UploadExists(BlobUploadPath(repo, uuid))
          /\ FinishBlobUpload(p, repo, uuid, FromBytes(Blob))
    \/ \E p \in Procs : Place(p)
    \/ \E p \in Procs : DedupeMiss(p)
    \/ \E p \in Procs : DedupeRename(p)
    \/ \E p \in Procs : DedupeHit(p)
    \/ Quiescent /\ PutImageManifest(1, RefTag("latest"), MediaTypeImageManifest, Blob)

SpecRoundTrip == InitRoundTrip /\ [][NextRoundTrip]_vars

\* manifest calls of two goroutines on one repository, every call in the
\* steps between which the scheduler may switch: puts by tag, deletes by
\* digest and reads by tag
InitSerial == Start(FALSE) /\ dedupe = TRUE /\ handle = NewImageStore(TRUE, gc, dedupe, TRUE)

NextSerial ==
    \/ \E p \in Procs, t \in Tags, body \in ManifestBodies :
          PutImageManifestLock(p, 1, RefTag(t), MediaTypeImageManifest, body)
    \/ \E p \in Procs : PutImageManifestRead(p)
    \/ \E p \in Procs : PutImageManifestWrite(p)
    \/ \E p \in Procs, body \in ManifestBodies : DeleteImageManifestLock(p, 1, RefDigest(FromBytes(body)))
    \/ \E p \in Procs : DeleteImageManifestRead(p)
    \/ \E p \in Procs : DeleteImageManifestWrite(p)
    \/ \E p \in Procs, t \in Tags : GetImageManifestRLock(p, 1, RefTag(t))
    \/ \E p \in Procs : GetImageManifestReturn(p)

SpecSerial == InitSerial /\ [][NextSerial]_vars

\* the store lock: two goroutines put, delete and read one manifest of one
\* repository and upload, read and delete its blob, every call in the steps
\* between which the scheduler may switch
InitLock == Start(FALSE) /\ dedupe = TRUE /\ handle = NewImageStore(TRUE, gc, dedupe, TRUE)

NextLock ==
    \/ \E p \in Procs : PutImageManifestLock(p, 1, RefTag("latest"), MediaTypeImageManifest, Blob)
    \/ \E p \in Procs : PutImageManifestRead(p)
    \/ \E p \in Procs : PutImageManifestWrite(p)
    \/ \E p \in Procs : DeleteImageManifestLock(p, 1, RefDigest(FromBytes(Blob)))
    \/ \E p \in Procs : DeleteImageManifestRead(p)
    \/ \E p \in Procs : DeleteImageManifestWrite(p)
    \/ \E p \in Procs : GetImageManifestRLock(p, 1, RefTag("latest"))
    \/ \E p \in Procs : GetImageManifestReturn(p)
    \/ \E p \in Procs : GetBlobRLock(p, 1, FromBytes(Blob))
    \/ \E p \in Procs : GetBlobOpen(p)
    \/ \E p \in Procs : FullBlobUpload(p, 1, Blob, FromBytes(Blob))
    \/ \E p \in Procs : FullCopy(p)
    \/ \E p \in Procs : Place(p)
    \/ \E p \in Procs : DedupeMiss(p)
    \/ \E p \in Procs : DedupeRename(p)
    \/ \E p \in Procs : DedupeStale(p)
    \/ \E p \in Procs : DedupeRetry(p)
    \/ \E p \in Procs : DedupeHit(p)
    \/ \E p \in Procs : DeleteBlob(p, 1, FromBytes(Blob))
    \/ \E p \in Procs : DeleteBlobCache(p)
    \/ \E p \in Procs : DeleteBlobRemove(p)

SpecLock == InitLock /\ [][NextLock]_vars

\* body streaming: two goroutines append to one upload session with and
\* without a range, upload whole blobs, and put a manifest
InitStream == Start(FALSE) /\ dedupe = TRUE /\ handle = NewImageStore(TRUE, gc, dedupe, TRUE)

NextStream ==
    \/ nextUuid <= MaxSessions /\ NewBlobUpload(1)
    \/ \E p \in Procs, uuid \in Uuids : UploadExists(BlobUploadPath(1, uuid)) /\ PutBlobChunkStreamed(p, 1, uuid, Layer)
    \/ \E p \in Procs : StreamedStat(p)
    \/ \E p \in Procs : StreamedOpen(p)
    \/ \E p \in Procs : StreamedCopy(p)
    \/ \E p \in Procs, uuid \in Uuids : UploadExists(BlobUploadPath(1, uuid)) /\ PutBlobChunk(p, 1, uuid, 0, Layer)
    \/ \E p \in Procs : ChunkStat(p)
    \/ \E p \in Procs : ChunkOpen(p)
    \/ \E p \in Procs : ChunkCopy(p)
    \/ \E p \in Procs : FullBlobUpload(p, 1, Layer, FromBytes(Layer))
    \/ \E p \in Procs : FullCopy(p)
    \/ \E p \in Procs : Place(p)
    \/ \E p \in Procs : DedupeMiss(p)
    \/ \E p \in Procs : DedupeRename(p)
    \/ \E p \in Procs : DedupeHit(p)
    \/ \E p \in Procs : PutImageManifestLock(p, 1, RefTag("latest"), MediaTypeImageManifest, BareManifest)
    \/ \E p \in Procs : PutImageManifestRead(p)
    \/ \E p \in Procs : PutImageManifestWrite(p)

SpecStream == InitStream /\ [][NextStream]_vars

\* the checks of a put: one goroutine puts well-formed and malformed bodies
\* with and without layers under a tag and under digests, with the right and
\* a wrong media type, while another uploads and deletes the layer named; the
\* result of every call recorded
InitValidate == Start(TRUE) /\ dedupe = FALSE /\ handle = NewImageStore(TRUE, gc, dedupe, TRUE)

NoPut == \A q \in Procs : call[q].op # "PutImageManifest"

NextValidate ==
    \/ \E p \in Procs, body \in {<< >>, Layer, <<0, 1, 1>>, BareManifest, LayerManifest, <<0, schemaVersion, 1, 2>>} :
          NoPut /\ PutImageManifestLock(p, 1, RefTag("latest"), MediaTypeImageManifest, body)
    \/ \E p \in Procs : NoPut /\ PutImageManifestLock(p, 1, RefTag("latest"), "text/plain", LayerManifest)
    \/ \E p \in Procs, body \in {BareManifest, LayerManifest} :
          NoPut /\ PutImageManifestLock(p, 1, RefDigest(FromBytes(BareManifest)), MediaTypeImageManifest, body)
    \/ \E p \in Procs : PutImageManifestRead(p)
    \/ \E p \in Procs : PutImageManifestWrite(p)
    \/ \E p \in Procs : ~BlobExists(BlobPath(1, FromBytes(Layer))) /\ FullBlobUpload(p, 1, Layer, FromBytes(Layer))
    \/ \E p \in Procs : FullCopy(p)
    \/ \E p \in Procs : Place(p)
    \/ \E p \in Procs : DeleteBlob(p, 1, FromBytes(Layer))
    \/ \E p \in Procs : DeleteBlobRemove(p)

SpecValidate == InitValidate /\ [][NextValidate]_vars

\* deletes of manifests: puts by tag and by digest of two manifests in one
\* repository, deletes by tag and by digest there and in a repository that
\* does not exist, and time; the result of every call recorded
InitDelete == Start(TRUE) /\ dedupe = FALSE /\ handle = NewImageStore(TRUE, gc, dedupe, TRUE)

NextDelete ==
    \/ Tick
    \/ \E reference \in References, body \in ManifestBodies :
          PutImageManifest(1, reference, MediaTypeImageManifest, body)
    \/ \E repo \in {1, 2}, reference \in References : DeleteImageManifest(repo, reference)

SpecDelete == InitDelete /\ [][NextDelete]_vars

\* a store opened on a directory that holds an image layout written by
\* another tool: one repository with two manifests, one untagged and one whose
\* ref.name annotation is the digest string of the other, in either order;
\* goroutines read by that string, by tag and by digest, and put and delete
\* manifests
BareDigestString == "sha256:bare"
RefDigestString == [tag |-> BareDigestString, dig |-> FromBytes(BareManifest)]

Collision ==
    <<NewDescriptor(MediaTypeImageManifest, BareManifest, RefDigest(FromBytes(BareManifest))),
      NewDescriptor(MediaTypeImageManifest, OtherManifest, RefTag(BareDigestString))>>

InitCollide ==
    /\ now = 0
    /\ gc = TRUE
    /\ dedupe = FALSE
    /\ handle = NewImageStore(TRUE, gc, dedupe, TRUE)
    /\ repos = {1}
    /\ dir = [r \in Repos |-> IF r = 1 THEN NewDir ELSE NoDir]
    /\ index \in {[r \in Repos |-> IF r = 1 THEN x ELSE << >>] : x \in {Collision, <<Collision[2], Collision[1]>>}}
    /\ ino = <<[data |-> BareManifest, mtime |-> 0], [data |-> OtherManifest, mtime |-> 0]>>
    /\ blobs = (BlobPath(1, FromBytes(BareManifest)) :> [ino |-> 1, placed |-> 0])
               @@ (BlobPath(1, FromBytes(OtherManifest)) :> [ino |-> 2, placed |-> 0])
    /\ uploads = << >>
    /\ nextUuid = 1
    /\ cache = << >>
    /\ lock = 0
    /\ call = [p \in Procs |-> Idle]
    /\ last = NoCall
    /\ fin = [d \in Digests |-> {}]
    /\ swept = {}

NextCollide ==
    \/ Tick
    \/ \E p \in Procs, reference \in {RefDigestString, RefTag("latest"), RefDigest(FromBytes(OtherManifest))} :
          GetImageManifestRLock(p, 1, reference)
    \/ \E p \in Procs : GetImageManifestReturn(p)
    \/ \E p \in Procs, body \in ManifestBodies : PutImageManifestLock(p, 1, RefTag("latest"), MediaTypeImageManifest, body)
    \/ \E p \in Procs : PutImageManifestRead(p)
    \/ \E p \in Procs : PutImageManifestWrite(p)
    \/ \E p \in Procs : DeleteImageManifestLock(p, 1, RefDigest(FromBytes(OtherManifest)))
    \/ \E p \in Procs : DeleteImageManifestRead(p)
    \/ \E p \in Procs : DeleteImageManifestWrite(p)

SpecCollide == InitCollide /\ [][NextCollide]_vars

\* construction: NewImageStore with and without dedupe, the root directory
\* and the dedupe index being creatable or not; on the handle returned,
\* whole-blob uploads of one blob into two repositories
InitConstruct ==
    /\ Start(FALSE)
    /\ handle \in {NewImageStore(mkdirAll, TRUE, dedupeFlag, opened) : mkdirAll, dedupeFlag, opened \in BOOLEAN}
    /\ dedupe = (handle.dedupe /\ handle.cache)

NextConstruct ==
    \/ \E p \in Procs, repo \in {1, 2} : handle.ok /\ FullBlobUpload(p, repo, Blob, FromBytes(Blob))
    \/ \E p \in Procs : FullCopy(p)
    \/ \E p \in Procs : Place(p)
    \/ \E p \in Procs : DedupeMiss(p)
    \/ \E p \in Procs : DedupeRename(p)
    \/ \E p \in Procs : DedupeHit(p)

SpecConstruct == InitConstruct /\ [][NextConstruct]_vars

\* a call of InitRepo that returns nil
InitRepoCall(name) ==
    /\ CanLock
    /\ InitRepo(name)
    /\ Result("InitRepo", name, 0, "")
    /\ UNCHANGED <<now, gc, dedupe, handle, ino, blobs, uploads, nextUuid, cache, lock, call, fin, swept>>

\* initialization: repositories 1 and 2, a repository named below the first,
\* initializations that return nil and ones that fail at the write of
\* oci-layout or of index.json, validation, whole-blob uploads and upload
\* sessions, and manifest puts by tag
InitInit == Start(TRUE) /\ dedupe = FALSE /\ handle = NewImageStore(TRUE, gc, dedupe, TRUE)

NextInit ==
    \/ InitRepoBelow(1)
    \/ \E name \in {1, 2}, at \in {"oci-layout", "index.json"} : InitRepoFails(name, at)
    \/ \E name \in {1, 2} : InitRepoCall(name)
    \/ \E name \in {1, 2} : ValidateRepoCall(name)
    \/ NewBlobUpload(1)
    \/ \E p \in Procs : FullBlobUpload(p, 1, Layer, FromBytes(Layer))
    \/ \E p \in Procs : FullCopy(p)
    \/ \E p \in Procs : Place(p)
    \/ PutImageManifest(1, RefTag("latest"), MediaTypeImageManifest, BareManifest)

SpecInit == InitInit /\ [][NextInit]_vars

\* a store opened on a root that already holds a directory with any
\* combination of entries; the directory and one that does not exist are
\* validated and initialized
DirStates ==
    [blobs : {"", "dir", "file"}, uploads : BOOLEAN, layout : {"", "{", "0.9.0", ImageLayoutVersion},
     index : BOOLEAN, sub : BOOLEAN]

InitLayout ==
    /\ now = 0
    /\ gc = TRUE
    /\ dedupe = FALSE
    /\ handle = NewImageStore(TRUE, gc, dedupe, TRUE)
    /\ repos = {1}
    /\ dir \in {[r \in Repos |-> IF r = 1 THEN d ELSE NoDir] : d \in DirStates}
    /\ index = [r \in Repos |-> << >>]
    /\ ino = << >>
    /\ blobs = << >>
    /\ uploads = << >>
    /\ nextUuid = 1
    /\ cache = << >>
    /\ lock = 0
    /\ call = [p \in Procs |-> Idle]
    /\ last = NoCall
    /\ fin = [d \in Digests |-> {}]
    /\ swept = {}

NextLayout ==
    \/ \E name \in {1, 2} : ValidateRepoCall(name)
    \/ \E name \in {1, 2} : InitRepoCall(name)

SpecLayout == InitLayout /\ [][NextLayout]_vars

\* blob deletion: goroutines upload one blob into one repository and delete
\* it, in the steps between which the scheduler may switch, while the blob is
\* put and deleted as a manifest; the result of every call recorded
InitUnlink == Start(TRUE) /\ dedupe = FALSE /\ handle = NewImageStore(TRUE, gc, dedupe, TRUE)

NextUnlink ==
    \/ Tick
    \/ \E p \in Procs : FullBlobUpload(p, 1, Blob, FromBytes(Blob))
    \/ \E p \in Procs : FullCopy(p)
    \/ \E p \in Procs : Place(p)
    \/ \E p \in Procs : DeleteBlob(p, 1, FromBytes(Blob))
    \/ \E p \in Procs : DeleteBlobRemove(p)
    \/ PutImageManifest(1, RefTag("latest"), MediaTypeImageManifest, Blob)
    \/ DeleteImageManifest(1, RefDigest(FromBytes(Blob)))

SpecUnlink == InitUnlink /\ [][NextUnlink]_vars

\* digest strings: one that does not parse, the sha256 digests of the empty
\* file and of the blob, and well-formed digests of another algorithm; whole
\* uploads of the blob, sessions finalized empty, reads and deletes of the
\* blob, each with every digest string, the result of every call recorded
DigestStrings ==
    {0, FromBytes(<< >>), FromBytes(Blob), 0 - FromBytes(<< >>), 0 - FromBytes(Blob)}

InitDigest == Start(TRUE) /\ dedupe = FALSE /\ handle = NewImageStore(TRUE, gc, dedupe, TRUE)

NextDigest ==
    \/ nextUuid <= MaxSessions /\ NewBlobUpload(1)
    \/ \E p \in Procs, uuid \in Uuids, digest \in DigestStrings : FinishBlobUpload(p, 1, uuid, digest)
    \/ \E p \in Procs, digest \in DigestStrings : FullBlobUpload(p, 1, Blob, digest)
    \/ \E p \in Procs : FullCopy(p)
    \/ \E p \in Procs : Place(p)
    \/ \E p \in Procs, digest \in DigestStrings : DeleteBlob(p, 1, digest)
    \/ \E p \in Procs : DeleteBlobRemove(p)
    \/ \E p \in Procs, digest \in DigestStrings : GetBlobRLock(p, 1, digest)
    \/ \E p \in Procs : GetBlobOpen(p)

SpecDigest == InitDigest /\ [][NextDigest]_vars

\* appends of one client that issues its calls one after another: sessions,
\* streamed appends and appends with every range start, and cancels; the
\* result of every call recorded
InitAppend == Start(TRUE) /\ dedupe = FALSE /\ handle = NewImageStore(TRUE, gc, dedupe, TRUE)

NextAppend ==
    \/ nextUuid <= MaxSessions + 1 /\ NewBlobUpload(1)
    \/ \E p \in Procs, uuid \in Uuids, body \in ChunkBodies :
          Quiescent /\ uuid <= nextUuid /\ PutBlobChunkStreamed(p, 1, uuid, body)
    \/ \E p \in Procs : StreamedStat(p)
    \/ \E p \in Procs : StreamedOpen(p)
    \/ \E p \in Procs : StreamedCopy(p)
    \/ \E p \in Procs, uuid \in Uuids, from \in 0..MaxSize, body \in ChunkBodies :
          Quiescent /\ uuid <= nextUuid /\ PutBlobChunk(p, 1, uuid, from, body)
    \/ \E p \in Procs : ChunkStat(p)
    \/ \E p \in Procs : ChunkOpen(p)
    \/ \E p \in Procs : ChunkCopy(p)
    \/ \E uuid \in Uuids : Quiescent /\ uuid < nextUuid /\ DeleteBlobUpload(1, uuid)

SpecAppend == InitAppend /\ [][NextAppend]_vars

\* a call on a new repository whose InitRepo panics in ensureDir (os.MkdirAll
\* fails) while the write lock is held; the recovery handler of the router
\* ends the request and the server goes on.  PutImageManifest has deferred its
\* Unlock, which runs as the panic unwinds; NewBlobUpload,
\* PutBlobChunkStreamed, PutBlobChunk and FullBlobUpload call Unlock after
\* InitRepo has returned, so the panic passes it by
InitRepoPanics(p, name, deferred) ==
    /\ Free(p)
    /\ CanLock
    /\ name \notin repos
    /\ lock' = IF deferred THEN lock ELSE p
    /\ Result(IF deferred THEN "PutImageManifest" ELSE "NewBlobUpload", name, 0, "panic")
    /\ UNCHANGED <<now, gc, dedupe, handle, repos, dir, index, ino, blobs, uploads, nextUuid, cache, call, fin, swept>>

\* panics under the lock: calls on two repositories, some of which panic in
\* InitRepo, whole-blob uploads, manifest puts and reads of the blob in the
\* steps between which the scheduler may switch; the result of every call
\* recorded
InitPanic == Start(TRUE) /\ dedupe = FALSE /\ handle = NewImageStore(TRUE, gc, dedupe, TRUE)

NextPanic ==
    \/ \E p \in Procs, name \in {1, 2}, deferred \in BOOLEAN : InitRepoPanics(p, name, deferred)
    \/ NewBlobUpload(1)
    \/ \E p \in Procs : FullBlobUpload(p, 1, Blob, FromBytes(Blob))
    \/ \E p \in Procs : FullCopy(p)
    \/ \E p \in Procs : Place(p)
    \/ \E p \in Procs : PutImageManifestLock(p, 2, RefTag("latest"), MediaTypeImageManifest, Blob)
    \/ \E p \in Procs : PutImageManifestRead(p)
    \/ \E p \in Procs : PutImageManifestWrite(p)
    \/ \E p \in Procs : GetBlobRLock(p, 1, FromBytes(Blob))
    \/ \E p \in Procs : GetBlobOpen(p)
    \/ \E p \in Procs : DeleteBlob(p, 1, FromBytes(Blob))
    \/ \E p \in Procs : DeleteBlobRemove(p)

SpecPanic == InitPanic /\ [][NextPanic]_vars

\* calls that fail on repositories that do not exist: one client that issues
\* its calls one after another appends to an upload that was never opened,
\* uploads whole blobs with a right, a wrong and an unparseable digest, and
\* puts manifests with a right and a wrong media type and with a layer that
\* is missing, on two repositories; the result of every call recorded
InitFrame == Start(TRUE) /\ dedupe = FALSE /\ handle = NewImageStore(TRUE, gc, dedupe, TRUE)

NextFrame ==
    \/ \E p \in Procs, repo \in {1, 2} : Quiescent /\ PutBlobChunkStreamed(p, repo, 1, Layer)
    \/ \E p \in Procs : StreamedStat(p)
    \/ \E p \in Procs : StreamedOpen(p)
    \/ \E p \in Procs : StreamedCopy(p)
    \/ \E p \in Procs, repo \in {1, 2} : Quiescent /\ PutBlobChunk(p, repo, 1, 0, Layer)
    \/ \E p \in Procs : ChunkStat(p)
    \/ \E p \in Procs : ChunkOpen(p)
    \/ \E p \in Procs : ChunkCopy(p)
    \/ \E p \in Procs, repo \in {1, 2}, digest \in {0, FromBytes(Layer), FromBytes(Blob)} :
          Quiescent /\ nextUuid <= MaxSessions + 1 /\ FullBlobUpload(p, repo, Layer, digest)
    \/ \E p \in Procs : FullCopy(p)
    \/ \E p \in Procs : Place(p)
    \/ \E repo \in {1, 2}, mediaType \in {MediaTypeImageManifest, "text/plain"},
          body \in {BareManifest, LayerManifest} :
          Quiescent /\ PutImageManifest(repo, RefTag("latest"), mediaType, body)
    \/ Quiescent /\ nextUuid = 1 /\ NewBlobUpload(1)

SpecFrame == InitFrame /\ [][NextFrame]_vars

\* every scenario together
Init == Start(FALSE) /\ dedupe \in BOOLEAN /\ handle = NewImageStore(TRUE, gc, dedupe, TRUE)
Next == NextUpload \/ NextManifest \/ NextIndex \/ NextGC \/ NextDedupe
Spec == Init /\ [][Next]_vars

\* ------------------------------------------------------------------ claims
\* the blobs of digest d in r1 and r2 are one inode
Shared(d, r1, r2) ==
    /\ BlobExists(BlobPath(r1, d)) /\ BlobExists(BlobPath(r2, d))
    /\ blobs[BlobPath(r1, d)].ino = blobs[BlobPath(r2, d)].ino

Returns(p) == Placing(p) /\ call'[p].op = "idle"

\* C6: when the file a dedupe record points at is gone while the record
\* remains, the finalize that finds the stale record succeeds, leaves a blob
\* with the right content at its final path, removes the scratch file and
\* leaves the index record pointing at an existing file.
C6_SelfHeal ==
    [][\A p \in Procs : (Returns(p) /\ call[p].tries > 0) =>
          /\ last'.err = ""
          /\ Dst(p) \in DOMAIN blobs'
          /\ FromBytes(ino'[blobs'[Dst(p)].ino].data) = call[p].digest
          /\ Src(p) \notin DOMAIN uploads'
          /\ call[p].digest \in DOMAIN cache'
          /\ cache'[call[p].digest] \in DOMAIN blobs']_vars

\* the dedupe hit of process p finds its final path taken by another inode
\* than the canonical file
HitOnOtherInode(p) ==
    /\ Placing(p) /\ call[p].pc = "hit"
    /\ BlobExists(call[p].rec) /\ BlobExists(Dst(p))
    /\ ~SameFile(blobs, Dst(p), call[p].rec)

\* C7: on a dedupe hit whose final path already exists as a different inode
\* than the canonical file, the finalize returns success, the scratch file is
\* unlinked and the existing blob at the final path is kept.
C7_LinkCollisionIsSuccess ==
    [][\A p \in Procs : (HitOnOtherInode(p) /\ Returns(p)) =>
          /\ last'.err = ""
          /\ Src(p) \notin DOMAIN uploads'
          /\ Dst(p) \in DOMAIN blobs' /\ blobs'[Dst(p)] = blobs[Dst(p)]]_vars

\* C8, invariant I5: with no call in flight, for each dedupe record (d -> P)
\* either the file at P exists and every other blob file of digest d in the
\* store is a hard link to that inode, or the record is stale (and DedupeStale
\* removes it when a finalize of d consults it).
C8_I5 ==
    Quiescent => \A d \in DOMAIN cache :
        BlobExists(cache[d]) => \A r \in Repos : BlobExists(BlobPath(r, d)) => Shared(d, r, cache[d][1])

\* a placement retries at most once, only after it found a stale record, and
\* when it retries the lookup no longer returns that record
RetryBounded ==
    \A p \in Procs :
        /\ call[p].tries <= 1
        /\ (Placing(p) /\ call[p].pc = "retry") =>
              /\ call[p].rec # << >> /\ ~BlobExists(call[p].rec)
              /\ CacheGetBlob(cache, call[p].digest) # call[p].rec

\* C9: the placement retry loop terminates: every finalize returns, after at
\* most one retry; a retry is taken only after a stale record was found, and
\* after the delete the next lookup sees a miss or a different record.
C9_Terminates == []RetryBounded /\ \A p \in Procs : Placing(p) ~> ~Placing(p)

\* C9: a placement has found a stale record, deleted it, retried and seen a
\* miss while a DeleteBlob of the same digest is in flight
C9_RetriedOnce ==
    \E p, q \in Procs :
        /\ Placing(p) /\ call[p].tries = 1 /\ call[p].pc = "miss"
        /\ call[q].op = "DeleteBlob" /\ call[q].digest = call[p].digest

\* C1, digest integrity: every file at blobs/sha256/<hex> of every repository
\* has content that hashes to <hex>.
C1_DigestIntegrity == \A path \in DOMAIN blobs : FromBytes(BlobData(ino, blobs, path)) = path[2]

\* C2, manifest closure: with no call in flight, for every descriptor of a
\* repository's index.json every layer digest of the manifest it references
\* exists as a blob file in that repository.
C2_ManifestClosure ==
    Quiescent => \A r \in Repos : \A m \in Range(index[r]) :
        (BlobExists(BlobPath(r, m.digest)) /\ IsJSON(BlobData(ino, blobs, BlobPath(r, m.digest)))) =>
            \A d \in Range(ManifestLayers(BlobData(ino, blobs, BlobPath(r, m.digest)))) : BlobExists(BlobPath(r, d))

\* C3, invariant I1: with no call in flight, the digest of every descriptor in
\* index.json is an existing file under blobs/ of that repository.
C3_I1 == Quiescent => \A r \in Repos : \A m \in Range(index[r]) : BlobExists(BlobPath(r, m.digest))

\* C4, GC grace: no GC run deletes a blob that was placed at its path less than
\* gcDelay ago.
C4_GCGrace == swept = {}

\* C10, tag uniqueness: each tag is the ref.name annotation of at most one
\* descriptor of a repository's index.json.
C10_TagUnique ==
    \A r \in Repos : \A i, j \in 1..Len(index[r]) :
        (index[r][i].tag # "" /\ index[r][i].tag = index[r][j].tag) => i = j

\* C10: a tag was put with one manifest and put again with another: the index has
\* one descriptor with the tag and the new digest, the blob of the first
\* manifest is still there and no descriptor names it
C10_TagReplaced ==
    \E r \in Repos :
        /\ \E i \in 1..Len(index[r]) : index[r][i].tag = "latest" /\ index[r][i].digest = FromBytes(OtherManifest)
        /\ BlobExists(BlobPath(r, FromBytes(BareManifest)))
        /\ \A m \in Range(index[r]) : m.digest # FromBytes(BareManifest)

\* the descriptors of repo's index that carry the tag with another digest
\* than the body's
Retagged(repo, t, body) == {i \in 1..Len(index[repo]) : index[repo][i].tag = t /\ index[repo][i].digest # FromBytes(body)}

\* C11: a put with a tag that a descriptor already carries, and a body of
\* another digest, replaces that descriptor in place: the updated descriptor is
\* at the position of the one it replaces and every other descriptor keeps its
\* position.
C11_ReplacedInPlace ==
    [][\A t \in Tags, body \in TaggedBodies : \A i \in Retagged(1, t, body) :
          PutImageManifest(1, RefTag(t), MediaTypeImageManifest, body) =>
              /\ Len(index'[1]) = Len(index[1])
              /\ index'[1][i].tag = t /\ index'[1][i].digest = FromBytes(body)
              /\ \A j \in 1..Len(index[1]) : j # i => index'[1][j] = index[1][j]]_vars

\* a descriptor of repo's index has the digest of the body
DigestPresent(repo, body) == \E m \in Range(index[repo]) : m.digest = FromBytes(body)

\* C12: a put of a body whose digest a descriptor of index.json already has
\* leaves the descriptor sequence of index.json unchanged, whether the
\* reference is that digest, a tag on that descriptor or a tag no descriptor
\* carries.
C12_SameDigestNoWrite ==
    [][\A reference \in References, body \in ManifestBodies :
          (DigestPresent(1, body) /\ PutImageManifest(1, reference, MediaTypeImageManifest, body)) =>
              index' = index]_vars

\* the number of times tag t is in the list GetImageTags returns
TagCount(tags, t) == Cardinality({i \in 1..Len(tags) : tags[i] = t})

\* C13: after a successful put of a body with a tag, GetImageTags holds the tag
\* exactly once and GetImageManifest by that tag returns the body and the
\* digest of that put, the most recent successful one for the tag.
C13_TagOverwriteObservable ==
    [][\A t \in Tags, body \in ManifestBodies :
          (/\ PutImageManifest(1, RefTag(t), MediaTypeImageManifest, body)
           /\ ManifestError(1, RefTag(t), MediaTypeImageManifest, body, blobs) = "") =>
              /\ TagCount(GetImageTags(repos', index', 1).tags, t) = 1
              /\ GetImageManifest(repos', index', ino', blobs', 1, RefTag(t)) =
                     [err |-> "", body |-> body, digest |-> FromBytes(body)]]_vars

\* the bytes of the scratch file of process p's call
Scratch(I, U, p) == I[U[Src(p)]].data

\* C14, resumability: a new upload is empty, and each successful PutBlobChunk
\* of a client that issues its calls one after another started at the end of
\* the scratch file and leaves it extended by exactly its body, so after N such
\* calls GetBlobUpload returns the sum of the body lengths and the file holds
\* the bodies in call order.
C14_Resumable ==
    [][/\ NewBlobUpload(1) => GetBlobUpload(ino', uploads', 1, nextUuid) = [err |-> "", size |-> 0]
       /\ \A p \in Procs : (ChunkCopy(p) /\ last'.err = "") =>
              /\ call[p].from = Len(Scratch(ino, uploads, p))
              /\ Scratch(ino', uploads', p) = Scratch(ino, uploads, p) \o call[p].body
              /\ GetBlobUpload(ino', uploads', call[p].repo, call[p].uuid) =
                     [err |-> "", size |-> call[p].from + Len(call[p].body)]]_vars

\* C14: two PutBlobChunk calls have succeeded one after the other and the
\* scratch file holds their two bodies in call order
C14_TwoChunks ==
    /\ last = [op |-> "PutBlobChunk", repo |-> 1, digest |-> 0, err |-> ""]
    /\ GetBlobUpload(ino, uploads, 1, 1) = [err |-> "", size |-> 2]
    /\ ino[uploads[BlobUploadPath(1, 1)]].data = <<0, 1>>

\* C15: a PutBlobChunk whose from differs from the size of the scratch file
\* fails with BadUploadRange and leaves the file untouched, and one whose from
\* is that size goes on to write and succeeds.
C15_BadRangeKeepsFile ==
    [][\A p \in Procs :
          /\ (ChunkStat(p) /\ UploadExists(Src(p)) /\ call[p].from # Len(Scratch(ino, uploads, p))) =>
                 /\ last' = [op |-> "PutBlobChunk", repo |-> call[p].repo, digest |-> 0, err |-> "ErrBadUploadRange"]
                 /\ call'[p] = Idle
                 /\ UNCHANGED <<ino, uploads>>
          /\ (ChunkStat(p) /\ UploadExists(Src(p)) /\ call[p].from = Len(Scratch(ino, uploads, p))) =>
                 call'[p].pc = "open" /\ last' = last
          /\ ChunkCopy(p) => last'.err = ""]_vars

\* C15: an append past the end of a one-byte scratch file has just failed with
\* BadUploadRange and the file is as it was
C15_RangeRejected ==
    /\ last = [op |-> "PutBlobChunk", repo |-> 1, digest |-> 0, err |-> "ErrBadUploadRange"]
    /\ UploadExists(BlobUploadPath(1, 1))
    /\ ino[uploads[BlobUploadPath(1, 1)]].data = <<1>>

\* C16: a FinishBlobUpload whose expected digest differs from the digest of the
\* scratch file fails with BadBlobDigest, leaves the scratch file and its
\* content in place and creates no blob and no dedupe record: a blob CheckBlob
\* did not find before is not found after.
C16_BadDigestKeepsScratch ==
    [][\A p \in Procs, uuid \in Uuids, digest \in FinishDigests :
          (/\ FinishBlobUpload(p, 1, uuid, digest)
           /\ UploadExists(BlobUploadPath(1, uuid))
           /\ FromBytes(ino[uploads[BlobUploadPath(1, uuid)]].data) # digest) =>
              /\ last' = [op |-> "FinishBlobUpload", repo |-> 1, digest |-> digest, err |-> "ErrBadBlobDigest"]
              /\ UNCHANGED <<ino, uploads, blobs, cache, call>>
              /\ CheckBlob(ino', blobs', 1, digest) = CheckBlob(ino, blobs, 1, digest)]_vars

\* C16: a finalize of a one-byte scratch file with the digest of other bytes
\* has just failed; the file is there and the expected blob is not
C16_DigestRejected ==
    /\ last = [op |-> "FinishBlobUpload", repo |-> 1, digest |-> FromBytes(<<1, 0>>), err |-> "ErrBadBlobDigest"]
    /\ UploadExists(BlobUploadPath(1, 1))
    /\ ino[uploads[BlobUploadPath(1, 1)]].data = <<1>>
    /\ CheckBlob(ino, blobs, 1, FromBytes(<<1, 0>>)).err = "ErrBlobNotFound"

\* C17, blob round trip: for a client that issues its calls one after another,
\* NewBlobUpload and the append of the body succeed, the FinishBlobUpload with
\* the body's digest succeeds, and after it GetBlob and CheckBlob return the
\* body and its length and the scratch file is gone, with dedupe on or off and
\* also when the digest was already present in the repository.
C17_RoundTrip ==
    [][/\ (\E repo \in {1, 2} : NewBlobUpload(repo)) => last'.err = ""
       /\ \A p \in Procs : StreamedCopy(p) => last'.err = ""
       /\ \A p \in Procs : (Returns(p) /\ call[p].op = "FinishBlobUpload") =>
              /\ last'.err = ""
              /\ GetBlob(ino', blobs', call[p].repo, call[p].digest) =
                     [err |-> "", body |-> Blob, size |-> Len(Blob)]
              /\ CheckBlob(ino', blobs', call[p].repo, call[p].digest) = [err |-> "", size |-> Len(Blob)]
              /\ Src(p) \notin DOMAIN uploads']_vars

\* process p is between its read and its write of index.json
Writing(p) == call[p].op \in {"PutImageManifest", "DeleteImageManifest"} /\ call[p].pc = "write"

\* the descriptors a call read are still the ones on disk when it writes
NoLostUpdate == \A p \in Procs : Writing(p) => call[p].idx = index[call[p].repo]

\* the index a call leaves is the one the call gives when it runs alone on the
\* index it found on disk
RunsAlone(p) ==
    LET repo == call[p].repo
        upd == UpdateIndex(index[repo], call[p].ref, NewDescriptor(call[p].media, call[p].body, call[p].ref))
    IN  /\ PutImageManifestWrite(p) => index'[repo] = IF upd.updateIndex THEN upd.manifests ELSE index[repo]
        /\ DeleteImageManifestWrite(p) => index'[repo] = KeepOthers(index[repo], call[p].ref)

\* C18: manifest mutations on one repository are serializable: between a
\* call's read of index.json and its write no other call changes index.json,
\* so every write leaves the index that the call gives when executed alone on
\* the index before it, and the final index is that of the successful calls
\* run one at a time in the order of their writes.
C18_Serializable == []NoLostUpdate /\ [][\A p \in Procs : RunsAlone(p)]_vars

\* C18: a put that replaces the digest of a tag is between its read and its
\* write of an index with two descriptors
C18_PutBetweenReadAndWrite ==
    \E p \in Procs :
        /\ Writing(p) /\ call[p].op = "PutImageManifest"
        /\ Len(index[1]) = 2
        /\ \E m \in Range(index[1]) : m.tag = call[p].ref.tag /\ m.digest # call[p].digest

\* a step that initializes a repository, rewrites index.json, or creates,
\* places or unlinks a file under blobs/
MutatesStore == repos' # repos \/ index' # index \/ blobs' # blobs

\* C19, write-lock coverage: the write lock is never held together with a read
\* lock, and every step that initializes a repository, rewrites index.json,
\* writes a manifest blob, places or unlinks a blob or runs GC is taken by the
\* goroutine that holds the write lock, or takes and releases it within the
\* step, while no goroutine holds the read lock.
C19_WriteLockCoverage ==
    /\ [](lock # 0 => Readers = {})
    /\ [][MutatesStore => /\ Readers = {}
                          /\ \A q \in Procs : lock = q => call'[q] # call[q]]_vars

\* C19: a GetBlob holds the read lock on a blob that a DeleteBlob is about to
\* unlink
C19_ReaderBlocksDelete ==
    \E p, q \in Procs :
        /\ call[p].op = "GetBlob" /\ call[p].pc = "rlocked"
        /\ call[q].op = "DeleteBlob" /\ call[q].pc = "remove" /\ call[q].digest = call[p].digest

\* process p is copying a body into a scratch file
Copying(p) == call[p].op \in {"PutBlobChunk", "PutBlobChunkStreamed", "FullBlobUpload"} /\ call[p].pc = "copy"

\* C20: a goroutine that is copying a body into a scratch file in PutBlobChunk,
\* PutBlobChunkStreamed or FullBlobUpload holds neither the write nor the read
\* lock, so when every other goroutine is idle or copying too the lock is free
\* for any other operation.
C20_StreamingUnlocked ==
    \A p \in Procs : Copying(p) =>
        /\ lock # p
        /\ p \notin Readers
        /\ (\A q \in Procs : call[q].op = "idle" \/ Copying(q)) => CanLock

\* C20: while one goroutine is copying a chunk, another has taken the write
\* lock for a manifest put
C20_PutDuringCopy ==
    \E p, q \in Procs :
        /\ Copying(p) /\ call[p].op = "PutBlobChunk"
        /\ lock = q /\ call[q].op = "PutImageManifest" /\ call[q].pc = "write"

\* goroutine p is at the checks of a put and takes them in this step
C21_Checks(p) == call[p].op = "PutImageManifest" /\ call[p].pc = "read" /\ call'[p] # call[p]

\* the layers of p's body that are not blobs of its repository
C21_Missing(p) == {d \in Range(ManifestLayers(call[p].body)) : BlobPath(call[p].repo, d) \notin DOMAIN blobs}

\* the put of p is rejected with err in this step and the store is as before
C21_Rejected(p, err) ==
    /\ last'.op = "PutImageManifest" /\ last'.err = err
    /\ call'[p].op = "idle"
    /\ index' = index /\ blobs' = blobs /\ ino' = ino

\* C21 as stated: a PutImageManifest whose body names a layer digest that is
\* not a blob of the repository fails with BlobNotFound reporting the
\* offending digest, writes no manifest blob and leaves index.json unchanged;
\* a put that writes index.json has all its layers present at that moment.
C21_MissingLayerRejected ==
    /\ [][\A p \in Procs : (C21_Checks(p) /\ IsJSON(call[p].body) /\ C21_Missing(p) # {}) =>
              C21_Rejected(p, "ErrBlobNotFound") /\ last'.digest \in C21_Missing(p)]_vars
    /\ [][\A p \in Procs : (call[p].op = "PutImageManifest" /\ index' # index) => C21_Missing(p) = {}]_vars

\* C21 amended: the same for a put that passes the checks made before the
\* layers are looked up: the media type is the OCI image-manifest type and the
\* body parses with schemaVersion 2.
C21_MissingLayerOfManifestRejected ==
    /\ [][\A p \in Procs : (/\ C21_Checks(p) /\ C21_Missing(p) # {}
                            /\ call[p].media = MediaTypeImageManifest
                            /\ IsJSON(call[p].body) /\ ManifestSchemaVersion(call[p].body) = schemaVersion) =>
              C21_Rejected(p, "ErrBlobNotFound") /\ last'.digest \in C21_Missing(p)]_vars
    /\ [][\A p \in Procs : (call[p].op = "PutImageManifest" /\ index' # index) => C21_Missing(p) = {}]_vars

\* C21: a put of a manifest with two layers, of which the first is a blob of
\* the repository, was rejected with BlobNotFound and the digest of the second
C21_SecondLayerMissing ==
    /\ last.op = "PutImageManifest" /\ last.err = "ErrBlobNotFound"
    /\ last.digest = FromBytes(<<2>>)
    /\ BlobExists(BlobPath(1, FromBytes(Layer)))

\* the media type, the JSON or the schemaVersion of p's put is not accepted
C22_Malformed(p) ==
    \/ call[p].media # MediaTypeImageManifest
    \/ Len(call[p].body) = 0
    \/ ~IsJSON(call[p].body)
    \/ ManifestSchemaVersion(call[p].body) # schemaVersion

\* the reference of p's put is a digest other than the digest of its body
C22_WrongDigest(p) == RefIsDigest(call[p].ref) /\ call[p].ref.dig # FromBytes(call[p].body)

\* C22 as stated: PutImageManifest fails with BadManifest, writes no manifest
\* blob and leaves index.json unchanged whenever the media type is not the OCI
\* image-manifest type, the body is empty or not parseable JSON, its
\* schemaVersion is not 2, or the reference is a parseable digest different
\* from the digest of the body.
C22_BadManifestRejected ==
    [][\A p \in Procs : (C21_Checks(p) /\ (C22_Malformed(p) \/ C22_WrongDigest(p))) =>
           C21_Rejected(p, "ErrBadManifest")]_vars

\* C22 amended: the same, the digest of the reference being compared only
\* once every layer of the body was found: a put with a wrong digest reference
\* whose body names a missing layer fails with BlobNotFound instead.
C22_BadManifestRejectedInOrder ==
    [][\A p \in Procs : (C21_Checks(p) /\ (C22_Malformed(p) \/ (C22_WrongDigest(p) /\ C21_Missing(p) = {}))) =>
           C21_Rejected(p, "ErrBadManifest")]_vars

\* C22: a put was rejected with BadManifest while index.json holds a
\* descriptor and the layer is a blob of the repository
C22_RejectedAfterAccepted ==
    /\ last.op = "PutImageManifest" /\ last.err = "ErrBadManifest"
    /\ Len(index[1]) > 0
    /\ BlobExists(BlobPath(1, FromBytes(Layer)))

\* the step rejects a delete with err: index.json and blobs/ stay as they are
\* and GC has deleted nothing
C23_Rejected(err) ==
    /\ last'.op = "DeleteImageManifest" /\ last'.err = err
    /\ index' = index /\ blobs' = blobs /\ ino' = ino /\ swept' = swept

\* no descriptor of repo carries the digest of the reference
C23_NotCarried(repo, reference) == \A i \in 1..Len(index[repo]) : index[repo][i].digest # reference.dig

C24_DeleteRemovesAll ==
    [][\A reference \in References :
           (DeleteImageManifest(1, reference) /\ last'.err = "") =>
               /\ index'[1] = SelectSeq(index[1], LAMBDA m : m.digest # reference.dig)
               /\ BlobPath(1, reference.dig) \notin DOMAIN blobs'
               /\ GetImageManifest(repos', index', ino', blobs', 1, reference).err = "ErrManifestNotFound"
               /\ \A i \in 1..Len(index[1]) :
                      (index[1][i].digest = reference.dig /\ index[1][i].tag # "") =>
                          GetImageManifest(repos', index', ino', blobs', 1, RefTag(index[1][i].tag)).err
                              = "ErrManifestNotFound"]_vars

\* C24: a delete has succeeded that removed two descriptors and kept one
C24_TwoRemovedOneKept ==
    /\ last.op = "DeleteImageManifest" /\ last.err = ""
    /\ Len(index[1]) = 1 /\ index[1][1].digest # last.digest
    /\ ~BlobExists(BlobPath(1, last.digest))

\* C25: when index.json holds one descriptor whose digest string equals the
\* reference and another descriptor whose ref.name annotation equals the
\* reference, GetImageManifest returns the descriptor with the exact digest
\* match, whatever the order of the two descriptors in the sequence.
C25_DigestMatchWins ==
    [][\A p \in Procs :
           (/\ call[p].op = "GetImageManifest" /\ call[p].pc = "rlocked" /\ call'[p].op = "idle"
            /\ \E i \in 1..Len(index[1]) : index[1][i].digest = call[p].ref.dig
            /\ \E j \in 1..Len(index[1]) : index[1][j].tag # "" /\ index[1][j].tag = call[p].ref.tag) =>
               last'.err = "" /\ last'.digest = call[p].ref.dig]_vars

\* C26: NewImageStore returns no usable handle when the root directory cannot
\* be created, and also when dedupe is enabled and the dedupe index cannot be
\* opened; hence every handle with dedupe enabled has an open dedupe index, and
\* its placements consult the index instead of renaming at once.
C26_ConstructionFatal ==
    /\ [](/\ ~handle.root => ~handle.ok
          /\ (handle.dedupe /\ ~handle.opened) => ~handle.ok
          /\ (handle.ok /\ handle.dedupe) => handle.cache)
    /\ [][\A p \in Procs :
              (handle.dedupe /\ Placing(p) /\ call[p].pc = "place" /\ call'[p] # call[p]) =>
                  call'[p].pc \in {"miss", "hit"}]_vars


\* C27: whenever InitRepo(name) returns success, the directory of name holds
\* blobs/, .uploads/, oci-layout and index.json and ValidateRepo(name) is
\* true, whatever the directory was before the call (absent, a valid
\* repository, the parent of a repository named below it, the remains of a
\* failed initialization); and a call on a directory that exists rewrites
\* neither oci-layout nor index.json
C27_Complete(d) == d.blobs = "dir" /\ d.uploads /\ d.layout # "" /\ d.index

C27_InitRepoComplete ==
    [][\A name \in Repos :
          InitRepoCall(name) =>
              /\ C27_Complete(dir'[name])
              /\ ValidateRepo(repos', dir', name).ok
              /\ name \in repos =>
                    /\ dir'[name].layout = dir[name].layout
                    /\ dir'[name].index = dir[name].index
                    /\ index'[name] = index[name]]_vars


\* C28 (I4): with no call in flight, a repository directory that holds a file
\* under blobs/ or a descriptor in index.json holds an oci-layout of version
\* 1.0.0; and no upload or manifest put, on nested names either, places a blob
\* or a manifest in a directory without it
C28_Holds(B, X, r) == (\E k \in DOMAIN B : k[1] = r) \/ X[r] # << >>

C28_LayoutWhereContent ==
    /\ [](Quiescent => \A r \in Repos : C28_Holds(blobs, index, r) => dir[r].layout = ImageLayoutVersion)
    /\ [][\A r \in Repos :
             (DOMAIN blobs' # DOMAIN blobs \/ index'[r] # index[r]) /\ C28_Holds(blobs', index', r) =>
                 dir'[r].layout = ImageLayoutVersion]_vars


\* C29: ValidateRepo(name) returns true exactly when the directory exists,
\* holds blobs, oci-layout and index.json, blobs is a directory and oci-layout
\* decodes to the expected version (.uploads may be missing); it signals
\* RepoBadVersion exactly when the version in oci-layout is another one, and
\* RepoNotFound when the directory is missing
C29_Mismatched(d) == d.layout \notin {"", "{", ImageLayoutVersion}

C29_ValidateRepoExact ==
    [][\A name \in Repos :
          ValidateRepoCall(name) =>
              /\ last'.digest = 1 <=>
                    (name \in repos /\ dir[name].blobs = "dir" /\ dir[name].index
                     /\ dir[name].layout = ImageLayoutVersion)
              /\ last'.err = "ErrRepoBadVersion" <=> (name \in repos /\ C29_Mismatched(dir[name]))
              /\ name \notin repos => last'.err = "ErrRepoNotFound"]_vars


\* C30: DeleteBlob of a blob whose file is missing fails with BlobNotFound
\* and changes nothing, also when the file goes away between the existence
\* check outside the lock and the unlink under it; so of two concurrent
\* DeleteBlob calls of one blob one succeeds and the other reports
\* BlobNotFound
C30_Ends(p) == call[p].op = "DeleteBlob" /\ call[p].pc = "remove" /\ call'[p].op = "idle"

C30_MissingIsBlobNotFound ==
    [][/\ \A p \in Procs, repo \in Repos, digest \in Digests :
             DeleteBlob(p, repo, digest) /\ ~BlobExists(BlobPath(repo, digest)) =>
                 last'.err = "ErrBlobNotFound" /\ blobs' = blobs /\ cache' = cache
       /\ \A p \in Procs :
             C30_Ends(p) =>
                 IF BlobExists(Dst(p))
                 THEN last'.err = ""
                 ELSE last'.err = "ErrBlobNotFound" /\ blobs' = blobs /\ cache' = cache]_vars


\* C31: CheckBlob, GetBlob, DeleteBlob, FinishBlobUpload and FullBlobUpload
\* fail with BadBlobDigest when the digest string does not parse; and a
\* FinishBlobUpload of an existing upload or a FullBlobUpload given a
\* well-formed digest of another algorithm than sha256 fails with
\* BadBlobDigest and places no blob
C31_Ends(p) == Placing(p) /\ call[p].digest < 0 /\ call'[p].op = "idle"

C31_BadDigestRejected ==
    /\ [](\A repo \in Repos :
             /\ CheckBlob(ino, blobs, repo, 0).err = "ErrBadBlobDigest"
             /\ GetBlob(ino, blobs, repo, 0).err = "ErrBadBlobDigest")
    /\ [][\A p \in Procs, repo \in Repos :
             /\ GetBlobRLock(p, repo, 0) => last'.err = "ErrBadBlobDigest"
             /\ DeleteBlob(p, repo, 0) => last'.err = "ErrBadBlobDigest"
             /\ FullBlobUpload(p, repo, Blob, 0) => last'.err = "ErrBadBlobDigest" /\ blobs' = blobs
             /\ \A uuid \in Uuids :
                   FinishBlobUpload(p, repo, uuid, 0) => last'.err = "ErrBadBlobDigest" /\ blobs' = blobs
             /\ \A uuid \in Uuids, digest \in DigestStrings :
                   (digest < 0 /\ UploadExists(BlobUploadPath(repo, uuid))
                    /\ FinishBlobUpload(p, repo, uuid, digest)) => last'.err = "ErrBadBlobDigest" /\ blobs' = blobs
             /\ C31_Ends(p) => last'.err = "ErrBadBlobDigest" /\ blobs' = blobs]_vars


\* C32: the scratch file of an upload that was consumed by a finalize or
\* removed by DeleteBlobUpload never exists again, in any interleaving, and
\* the calls on its uuid find no upload; an upload whose uuid was handed out
\* and whose scratch file is gone is such an upload
C32_Gone(U, uuid) == BlobUploadPath(1, uuid) \notin DOMAIN U

C32_UploadOneWay ==
    /\ [](\A uuid \in Uuids :
             (uuid < nextUuid /\ C32_Gone(uploads, uuid)) =>
                 GetBlobUpload(ino, uploads, 1, uuid).err = "ErrUploadNotFound")
    /\ [][\A uuid \in Uuids : (uuid < nextUuid /\ C32_Gone(uploads, uuid)) => C32_Gone(uploads', uuid)]_vars


\* C33: from the same state PutBlobChunkStreamed(repo, uuid, body) and
\* PutBlobChunk(repo, uuid, from = current size, body) do the same: both go on
\* to write when the scratch file exists, both succeed leaving the file
\* extended by exactly the body (the byte count they return is the length of
\* the body copied), and both fail with UploadNotFound, changing nothing,
\* when the scratch file is missing
C33_Appended(p) ==
    /\ last'.err = ""
    /\ Scratch(ino', uploads', p) = Scratch(ino, uploads, p) \o call[p].body
    /\ GetBlobUpload(ino', uploads', call[p].repo, call[p].uuid).size
           = GetBlobUpload(ino, uploads, call[p].repo, call[p].uuid).size + Len(call[p].body)

C33_NotFound(p) == last'.err = "ErrUploadNotFound" /\ call'[p] = Idle /\ UNCHANGED <<ino, uploads>>

C33_StreamedIsChunkAtEnd ==
    [][\A p \in Procs :
          /\ StreamedStat(p) => IF UploadExists(Src(p)) THEN call'[p].pc = "open" ELSE C33_NotFound(p)
          /\ (ChunkStat(p) /\ (UploadExists(Src(p)) => call[p].from = Len(Scratch(ino, uploads, p)))) =>
                IF UploadExists(Src(p)) THEN call'[p].pc = "open" ELSE C33_NotFound(p)
          /\ StreamedCopy(p) => C33_Appended(p)
          /\ ChunkCopy(p) => C33_Appended(p)]_vars

\* C33: a streamed append has just extended a scratch file that already held
\* a byte
C33_StreamedAfterChunk ==
    /\ last = [op |-> "PutBlobChunkStreamed", repo |-> 1, digest |-> 0, err |-> ""]
    /\ UploadExists(BlobUploadPath(1, 1))
    /\ ino[uploads[BlobUploadPath(1, 1)]].data = <<0, 1>>


\* C34: no get, put or delete of the dedupe index is made by a goroutine that
\* holds the store write lock, neither in the placement of FinishBlobUpload
\* and FullBlobUpload nor in DeleteBlob
C34_IndexCall(p) ==
    \/ Place(p) /\ dedupe
    \/ DedupeMiss(p)
    \/ DedupeStale(p)
    \/ DedupeRetry(p)
    \/ DeleteBlobCache(p)

C34_IndexOutsideLock == [][\A p \in Procs : C34_IndexCall(p) => lock # p /\ lock' # p]_vars


\* C35: appends to one upload exclude each other in effect: every append that
\* returns success leaves the scratch file longer by the byte count it returns
\* and overwrites no byte an earlier append wrote, so of two concurrent
\* PutBlobChunk calls with the same from at most one succeeds and the size is
\* the sum of the counts returned
C35_Open(p) == UploadExists(Src(p)) /\ uploads[Src(p)] = call[p].h

C35_AppendsExclusive ==
    [][\A p \in Procs :
          ((ChunkCopy(p) \/ StreamedCopy(p)) /\ C35_Open(p)) =>
              ino'[call[p].h].data = ino[call[p].h].data \o call[p].body]_vars


\* C36: the store lock is never leaked: on every way out of an operation that
\* took it (return, error, a panic under the lock that the recovery handler
\* survives) the lock is released, so the write lock is held only by a
\* goroutine that is inside a call
C36_LockNotLeaked == \A p \in Procs : lock = p => call[p].op # "idle"


\* C37: a failing call does not change the set of repositories: a
\* PutBlobChunk or PutBlobChunkStreamed on a repository that does not exist
\* (its upload cannot exist, it fails with UploadNotFound), a FullBlobUpload
\* there whose digest does not parse or is not the digest of the body (it
\* fails with BadBlobDigest), and a PutImageManifest there that fails with
\* BadManifest or BlobNotFound create no directory, oci-layout or index.json
\* and leave GetRepositories as it was
C37_NoRepo == repos' = repos /\ dir' = dir /\ GetRepositories(repos', dir') = GetRepositories(repos, dir)

C37_FailureCreatesNoRepo ==
    [][\A repo \in Repos :
          repo \notin repos =>
              /\ \A p \in Procs, uuid \in Uuids, from \in 0..MaxSize, body \in {Layer} :
                    PutBlobChunk(p, repo, uuid, from, body) => C37_NoRepo
              /\ \A p \in Procs, uuid \in Uuids, body \in {Layer} :
                    PutBlobChunkStreamed(p, repo, uuid, body) => C37_NoRepo
              /\ \A p \in Procs, body \in {Layer}, digest \in {0, FromBytes(Blob)} :
                    FullBlobUpload(p, repo, body, digest) => C37_NoRepo
              /\ \A mediaType \in {MediaTypeImageManifest, "text/plain"}, body \in {BareManifest, LayerManifest} :
                    (/\ PutImageManifest(repo, RefTag("latest"), mediaType, body)
                     /\ last'.err \in {"ErrBadManifest", "ErrBlobNotFound"}) => C37_NoRepo]_vars


\* C38: PutImageManifest and DeleteImageManifest are all-or-nothing: when
\* either returns an error, a failure of the GC run after the index write
\* included, index.json and the blobs of the repository are as before the
\* call; when it returns success the index change is in place
C38_Ends(p) == call[p].op \in {"PutImageManifest", "DeleteImageManifest"} /\ call'[p].op = "idle"

C38_InPlace(p) ==
    IF call[p].op = "PutImageManifest"
    THEN \E i \in 1..Len(index'[call[p].repo]) :
            /\ index'[call[p].repo][i].digest = call[p].digest
            /\ RefIsDigest(call[p].ref) \/ index'[call[p].repo][i].tag = call[p].ref.tag
    ELSE \A i \in 1..Len(index'[call[p].repo]) : index'[call[p].repo][i].digest # call[p].digest

C38_AllOrNothing ==
    [][\A p \in Procs :
          C38_Ends(p) =>
              IF last'.err = "" THEN C38_InPlace(p)
              ELSE index'[call[p].repo] = index[call[p].repo] /\ blobs' = blobs]_vars


\* C39: FullBlobUpload leaves no orphan scratch file: when it returns, with
\* success or with any error, the file it created under .uploads/ is gone
C39_Ends(p) == call[p].op = "FullBlobUpload" /\ call'[p].op = "idle"

C39_NoOrphanScratch == [][\A p \in Procs : C39_Ends(p) => Src(p) \notin DOMAIN uploads']_vars

====
